---- MODULE Spec2Model ----
(***************************************************************************)
(* A model of the egress pipeline of the rfc-refactor auditor:             *)
(*   - aspects/egressGuard.ts : the text and object sanitizers             *)
(*   - sanitizeHttp.ts        : the header filter of a sanitized exchange  *)
(*   - aspects/applyAspects.ts: the aspect composer                        *)
(*   - mcpClient.ts           : the gateway client                         *)
(*   - app/api/chat/route.ts  : the chat handler                           *)
(*   - graphContext.ts        : the spec extractor and the graph store   *)
(*                              adapter                                    *)
(*   - config/dynamicOwaspFetcher.ts : the cache of the OWASP catalog      *)
(*   - auditEngine.ts         : the run orchestrator                       *)
(*   - sandboxManager (unnamed/part_006) : the shared sandbox session     *)
(*   - groqClient (unnamed/part_008) : the analysis of a run               *)
(*                                                                         *)
(* Text is a sequence of one-character strings, so that the regular        *)
(* expressions of SENSITIVE_PATTERNS are matched character by character.   *)
(* Every component has its own specification (SpecText, SpecObject, ...):  *)
(* the variables of the other components are parked at "off".              *)
(***************************************************************************)
EXTENDS Integers, Sequences, FiniteSets, TLC

VARIABLES
    redactor,    \* the behaviour of the process-wide Redactor instance
    textIn,      \* the string handed to sanitizeTextForEgress
    textOut,     \* the result of the latest deterministic pass
    textPrev,    \* the result of the pass before the latest one
    textPc,      \* "input" | "once" | "twice" | "off"
    objIn,       \* the value handed to sanitizeObjectForEgress
    objOut,      \* the value it returned
    objPc,       \* "input" | "done" | "off"
    heap,        \* the objects a caller built: cell -> string or container
    callStack,   \* the activations of sanitizeObjectForEgress, innermost last
    walkStatus,  \* "running" | "returned" | "RangeError" | "off"
    httpRaw,     \* the raw exchange handed to sanitizeHttpExchange
    httpOut,     \* the sanitized exchange it returned
    httpPc,      \* "raw" | "sanitized" | "off"
    aspects,     \* the list handed to applyAspects
    composed,    \* the callable applyAspects returned
    aspReq,      \* the request the composed callable is called with
    baseThrows,  \* whether the base function throws
    aspCall,     \* what the call of the composed callable did
    aspPc,       \* "list" | "composed" | "called" | "off"
    mcpGatewayConfigured,  \* mcpGatewayUrl is set
    wire,        \* the tool call transmitted last
    gwOutcome,   \* how the last call of the gateway client ended
    errorsSeen,  \* the errors callers have been thrown, with their cause
    fbToken,     \* a gateway token is set
    fbQuery,     \* the query callPerplexityMcp was called with
    fbCalls,     \* the calls one callPerplexityMcp has made so far
    fbLastError, \* lastError
    fbResult,    \* how callPerplexityMcp ended, and on which candidate
    fbPc,        \* "idle" | "loop" | "done" | "off"
    chatMessages, \* the messages of a request to the completion service
    llmSent,     \* what was posted to the completion service
    chatPc,       \* "request" | "sent" | "off"
    exCatalog,   \* the catalog in effect: "default" | "dynamic"
    exLastIndex, \* lastIndex of the pattern of every category of the catalog
    exText,      \* the text handed to the extractor last
    exSpecs,     \* the entities it returned
    exPc,         \* "idle" | "extracted" | "off"
    cachedData,  \* null, or the fetched catalog and its fetchedAt
    catNow,      \* Date.now(), in ticks
    catGatewayUrl, \* getMcpGatewayUrl() is not empty
    catCalls,    \* every call of fetchDynamicOwaspCategories: where it is, what it returned
    catAsked,    \* the times the research tool was asked for the category list
    catLastSource, \* the source the call that returned last reported
    customTtl,   \* the value setOwaspCacheTtl stored last
    gStore,      \* the nodes and edges of the graph store
    gBatch,      \* the entities of the latest upsert or read
    gQueries,    \* the queries the latest operation handed to callMemgraphMcp
    gLatest,     \* per id, the entity that was upserted last
    gReport,     \* the ids the latest report cites
    gStatus,      \* "idle" | "upserted" | "read" | "reported" | "off"
    runPc,       \* the call the run awaits, "idle", "Complete" or "Failed"
    runLog,      \* the states the current run has started, in order
    runPending,  \* what the try block ended with, kept while finally runs
    runReport,   \* the report the caller got: "none" | "parsed" | "fallback"
    runError,    \* the error the caller got, or NoError
    runFailures, \* the states of the current run in which an outside call failed
    runContext,  \* the graph context handed to the analysis
    runExchanges, \* the paths of the exchanges the probe returned
    runResults,   \* how the earlier runs ended
    activeSandbox, \* the process-wide handle: 0 for null, or a sandbox id
    mcpGatewayUrl, \* 0 for the empty string, or the sandbox whose url and token are configured
    startedSampleApis, \* the set of sandbox ids of sandboxManager
    sbCreated,   \* the sandboxes E2B has created so far: ids 1..sbCreated
    sbKilled,    \* the sandboxes that were killed
    apiStarts,   \* per sandbox id, the calls of runSampleApiInSandbox
    callers,     \* per caller, the function it is in and the await it is at
    sesHistory,   \* whether reset was called, a run was begun, two calls overlapped
    anCompletion, \* the content of the completion groqChat returned
    anSpecs,     \* input.specs
    anGraphContext, \* input.graphContext
    anReport,    \* the report analyzeComplianceWithGroq returned
    anPc,         \* "called" | "returned" | "threw" | "off"
    lastGraphContext, \* the module-level cache of route.ts
    requests     \* per request of POST /api/chat: its kind, its await, its response

textVars == <<textIn, textOut, textPrev, textPc>>
objVars == <<objIn, objOut, objPc>>

walkVars == <<heap, callStack, walkStatus>>

httpVars == <<httpRaw, httpOut, httpPc>>

aspVars == <<aspects, composed, aspReq, baseThrows, aspCall, aspPc>>

gwVars == <<mcpGatewayConfigured, wire, gwOutcome, errorsSeen>>

fbVars == <<fbToken, fbQuery, fbCalls, fbLastError, fbResult, fbPc>>

chatVars == <<chatMessages, llmSent, chatPc>>

exVars == <<exCatalog, exLastIndex, exText, exSpecs, exPc>>

catVars ==
    <<cachedData, catNow, catGatewayUrl, catCalls, catAsked, catLastSource, customTtl>>

graphVars == <<gStore, gBatch, gQueries, gLatest, gReport, gStatus>>

runVars ==
    <<runPc, runLog, runPending, runReport, runError, runFailures, runContext,
      runExchanges, runResults>>

sesVars ==
    <<activeSandbox, mcpGatewayUrl, startedSampleApis, sbCreated, sbKilled,
      apiStarts, callers, sesHistory>>

anVars == <<anCompletion, anSpecs, anGraphContext, anReport, anPc>>

hVars == <<lastGraphContext, requests>>

vars == <<redactor, textVars, objVars, walkVars, httpVars, aspVars, gwVars, fbVars,
          chatVars, exVars, catVars, graphVars, runVars, sesVars,
          anVars, hVars>>

\* what the actions of one component leave alone
notText ==
    <<objVars, walkVars, httpVars, aspVars, gwVars, fbVars, chatVars,
      exVars, catVars, graphVars, runVars, sesVars, anVars, hVars>>
notObj ==
    <<textVars, walkVars, httpVars, aspVars, gwVars, fbVars, chatVars,
      exVars, catVars, graphVars, runVars, sesVars, anVars, hVars>>
notWalk ==
    <<textVars, objVars, httpVars, aspVars, gwVars, fbVars, chatVars,
      exVars, catVars, graphVars, runVars, sesVars, anVars, hVars>>
notHttp ==
    <<textVars, objVars, walkVars, aspVars, gwVars, fbVars, chatVars,
      exVars, catVars, graphVars, runVars, sesVars, anVars, hVars>>
notAsp ==
    <<textVars, objVars, walkVars, httpVars, gwVars, fbVars, chatVars,
      exVars, catVars, graphVars, runVars, sesVars, anVars, hVars>>
notGw ==
    <<textVars, objVars, walkVars, httpVars, aspVars, fbVars, chatVars,
      exVars, catVars, graphVars, runVars, sesVars, anVars, hVars>>
notFb ==
    <<textVars, objVars, walkVars, httpVars, aspVars, gwVars, chatVars,
      exVars, catVars, graphVars, runVars, sesVars, anVars, hVars>>
notChat ==
    <<textVars, objVars, walkVars, httpVars, aspVars, gwVars, fbVars,
      exVars, catVars, graphVars, runVars, sesVars, anVars, hVars>>
notSes ==
    <<textVars, objVars, walkVars, httpVars, aspVars, gwVars, fbVars,
      chatVars, exVars, catVars, graphVars, runVars, anVars, hVars>>
notRun ==
    <<textVars, objVars, walkVars, httpVars, aspVars, gwVars, fbVars,
      chatVars, exVars, catVars, graphVars, sesVars, anVars, hVars>>
notGraph ==
    <<textVars, objVars, walkVars, httpVars, aspVars, gwVars, fbVars,
      chatVars, exVars, catVars, runVars, sesVars, anVars, hVars>>
notCat ==
    <<textVars, objVars, walkVars, httpVars, aspVars, gwVars, fbVars,
      chatVars, exVars, graphVars, runVars, sesVars, anVars, hVars>>
notEx ==
    <<textVars, objVars, walkVars, httpVars, aspVars, gwVars, fbVars,
      chatVars, catVars, graphVars, runVars, sesVars, anVars, hVars>>
notAn ==
    <<textVars, objVars, walkVars, httpVars, aspVars, gwVars, fbVars,
      chatVars, exVars, catVars, graphVars, runVars, sesVars, hVars>>
notH ==
    <<textVars, objVars, walkVars, httpVars, aspVars, gwVars, fbVars,
      chatVars, exVars, catVars, graphVars, runVars, sesVars, anVars>>

----------------------------------------------------------------------------
(* Characters and character classes                                        *)

LowerChars == <<"a","b","c","d","e","f","g","h","i","j","k","l","m",
                "n","o","p","q","r","s","t","u","v","w","x","y","z">>
UpperChars == <<"A","B","C","D","E","F","G","H","I","J","K","L","M",
                "N","O","P","Q","R","S","T","U","V","W","X","Y","Z">>

SeqRange(s) == {s[i] : i \in DOMAIN s}

Lower == SeqRange(LowerChars)
Upper == SeqRange(UpperChars)
Alpha == Lower \cup Upper
Digit == {"0","1","2","3","4","5","6","7","8","9"}
Alnum == Alpha \cup Digit
\* \s of a JavaScript regular expression, as far as a TLA+ string can spell it
Space == {" ", "\t", "\n", "\r", "\f"}
\* \w, the word characters that \b looks at
WordChar == Alnum \cup {"_"}

\* String.prototype.toLowerCase on one character
toLowerCase(c) ==
    IF c \in Upper
    THEN LowerChars[CHOOSE i \in DOMAIN UpperChars : UpperChars[i] = c]
    ELSE c

toUpperCase(c) ==
    IF c \in Lower
    THEN UpperChars[CHOOSE i \in DOMAIN LowerChars : LowerChars[i] = c]
    ELSE c

\* toLowerCase on a string
LowerCaseStr(s) == [i \in DOMAIN s |-> toLowerCase(s[i])]

----------------------------------------------------------------------------
(* A backtracking matcher for the regular expressions of the source.       *)
(* Every pattern of SENSITIVE_PATTERNS is a sequence of items: a character *)
(* class with a greedy quantifier {min,max}, or the assertion \b.          *)
(* The optional group of the phone pattern, (\+?1?[-.\s]?)?, holds three   *)
(* optional items: it matches and prefers exactly what \+?1?[-.\s]? does.  *)

\* [set]{min,max}, greedy
Rep(S, lo, hi) == [kind |-> "cls", set |-> S, neg |-> FALSE, min |-> lo, max |-> hi, unb |-> FALSE]
\* [set]{min,}, greedy
RepFrom(S, lo) == [kind |-> "cls", set |-> S, neg |-> FALSE, min |-> lo, max |-> lo, unb |-> TRUE]
\* [^set]{min,}, greedy
NotRepFrom(S, lo) == [kind |-> "cls", set |-> S, neg |-> TRUE, min |-> lo, max |-> lo, unb |-> TRUE]
One(S) == Rep(S, 1, 1)
Opt(S) == Rep(S, 0, 1)
Star(S) == RepFrom(S, 0)
Plus(S) == RepFrom(S, 1)
WordBoundary == [kind |-> "wb"]
\* a literal, one item per character
Lit(s) == [i \in DOMAIN s |-> One({s[i]})]
\* a literal under the i flag
LitI(s) == [i \in DOMAIN s |-> One({toLowerCase(s[i]), toUpperCase(s[i])})]

\* a run of literal characters under the i flag, matched in one step
WordI(str) == [kind |-> "word", str |-> LowerCaseStr(str)]
\* .* without the s flag, greedy
DotStar == [kind |-> "dots"]

\* how many characters from position i . can take: up to the line end
DotRun(s, i) ==
    CHOOSE n \in 0..(Len(s) - i + 1) :
        /\ \A j \in i..(i + n - 1) : s[j] \notin {"\n", "\r"}
        /\ i + n > Len(s) \/ s[i + n] \in {"\n", "\r"}

CharMatches(it, c) == IF it.neg THEN c \notin it.set ELSE c \in it.set

IsWordAt(s, i) == i >= 1 /\ i <= Len(s) /\ s[i] \in WordChar
\* \b before position i (between s[i-1] and s[i])
AtWordBoundary(s, i) == IsWordAt(s, i - 1) # IsWordAt(s, i)

\* the longest run of characters of the class from position i, capped at max
RECURSIVE RunLen(_, _, _, _)
RunLen(it, s, i, n) ==
    IF i + n <= Len(s) /\ (it.unb \/ n < it.max) /\ CharMatches(it, s[i + n])
    THEN RunLen(it, s, i, n + 1)
    ELSE n

\* MatchFrom: the index after the match of items[k..] at position i that a
\* backtracking matcher finds first, or 0 when there is none.
RECURSIVE MatchFrom(_, _, _, _), TryCounts(_, _, _, _, _)
MatchFrom(items, k, s, i) ==
    IF k > Len(items) THEN i
    ELSE IF items[k].kind = "wb"
         THEN IF AtWordBoundary(s, i) THEN MatchFrom(items, k + 1, s, i) ELSE 0
    ELSE IF items[k].kind = "word"
         THEN IF /\ i + Len(items[k].str) - 1 <= Len(s)
                 /\ LowerCaseStr(SubSeq(s, i, i + Len(items[k].str) - 1)) = items[k].str
              THEN MatchFrom(items, k + 1, s, i + Len(items[k].str))
              ELSE 0
    ELSE IF items[k].kind = "dots"
         THEN LET run == DotRun(s, i)
                  rest == {n \in 0..run : MatchFrom(items, k + 1, s, i + n) # 0}
              IN  IF rest = {} THEN 0
                  ELSE MatchFrom(items, k + 1, s,
                                 i + CHOOSE n \in rest : \A m \in rest : m <= n)
    ELSE TryCounts(items, k, s, i, RunLen(items[k], s, i, 0))

\* greedy: the longest count first, then one character less
TryCounts(items, k, s, i, n) ==
    IF n < items[k].min THEN 0
    ELSE LET r == MatchFrom(items, k + 1, s, i + n)
         IN  IF r # 0 THEN r ELSE TryCounts(items, k, s, i, n - 1)

\* String.prototype.replace(pattern /g, replacement): leftmost matches,
\* left to right, none overlapping
RECURSIVE ReplaceFrom(_, _, _, _)
ReplaceFrom(items, replacement, s, i) ==
    IF i > Len(s) THEN <<>>
    ELSE LET e == MatchFrom(items, 1, s, i)
         IN  IF e > i
             THEN replacement \o ReplaceFrom(items, replacement, s, e)
             ELSE <<s[i]>> \o ReplaceFrom(items, replacement, s, i + 1)

ReplaceAll(p, s) == ReplaceFrom(p.pattern, p.replacement, s, 1)

\* does the pattern match anywhere in s
Test(items, s) == \E i \in 1..Len(s) : MatchFrom(items, 1, s, i) > i

----------------------------------------------------------------------------
(* SENSITIVE_PATTERNS, egressGuard.ts lines 56-75                          *)

EmailLocal == Alnum \cup {".", "_", "%", "+", "-"}
EmailDomain == Alnum \cup {".", "-"}
Sep == {"-", "."} \cup Space
KeyChars == Alnum \cup {"_", "-"}
QuoteColonSpace == {"'", "\"", ":"} \cup Space

EmailPattern ==
    <<Plus(EmailLocal), One({"@"}), Plus(EmailDomain), One({"."}), RepFrom(Alpha, 2)>>
PhonePattern ==
    <<Opt({"+"}), Opt({"1"}), Opt(Sep),
      Opt({"("}), Rep(Digit, 3, 3), Opt({")"}), Opt(Sep),
      Rep(Digit, 3, 3), Opt(Sep), Rep(Digit, 4, 4)>>
\* (mutant) the middle group written with three digits
SsnPatternThreeDigitGroup ==
    <<Rep(Digit, 3, 3), One({"-"}), Rep(Digit, 3, 3), One({"-"}), Rep(Digit, 4, 4)>>
SsnPattern ==
    <<Rep(Digit, 3, 3), One({"-"}), Rep(Digit, 2, 2), One({"-"}), Rep(Digit, 4, 4)>>
CreditCardPattern ==
    <<Rep(Digit, 4, 4), Opt({"-"} \cup Space), Rep(Digit, 4, 4), Opt({"-"} \cup Space),
      Rep(Digit, 4, 4), Opt({"-"} \cup Space), Rep(Digit, 4, 4)>>
SkLivePattern == Lit(<<"s","k","_","l","i","v","e","_">>) \o <<Plus(Alnum)>>
SkTestPattern == Lit(<<"s","k","_","t","e","s","t","_">>) \o <<Plus(Alnum)>>
ApiKeyPattern ==
    LitI(<<"a","p","i">>) \o <<Opt({"_", "-"})>> \o LitI(<<"k","e","y">>)
        \o <<Star(QuoteColonSpace), RepFrom(KeyChars, 20)>>
JwtPattern ==
    Lit(<<"e","y","J">>) \o <<Star(KeyChars), One({"."})>>
        \o Lit(<<"e","y","J">>) \o <<Star(KeyChars), One({"."}), Star(KeyChars)>>
IpPattern ==
    <<WordBoundary, Rep(Digit, 1, 3), One({"."}), Rep(Digit, 1, 3), One({"."}),
      Rep(Digit, 1, 3), One({"."}), Rep(Digit, 1, 3), WordBoundary>>
PasswordPattern ==
    LitI(<<"p","a","s","s","w","o","r","d">>)
        \o <<Star(QuoteColonSpace), NotRepFrom(Space \cup {",", "}", "\"", "'"}, 1)>>

EmailToken == <<"[","E","M","A","I","L","]">>
PhoneToken == <<"[","P","H","O","N","E","]">>
SsnToken == <<"[","S","S","N","]">>
CreditCardToken == <<"[","C","R","E","D","I","T","_","C","A","R","D","]">>
ApiKeyToken == <<"[","A","P","I","_","K","E","Y","]">>
JwtToken == <<"[","J","W","T","]">>
IpToken == <<"[","I","P","_","A","D","D","R","E","S","S","]">>
\* (mutant) the password placeholder written like the other placeholders
PasswordTokenBracketed == <<"[","P","A","S","S","W","O","R","D","]">>
PasswordToken ==
    <<"p","a","s","s","w","o","r","d",":"," ","[","R","E","D","A","C","T","E","D","]">>

SENSITIVE_PATTERNS ==
    << [pattern |-> EmailPattern,      replacement |-> EmailToken],
       [pattern |-> PhonePattern,      replacement |-> PhoneToken],
       [pattern |-> SsnPattern,        replacement |-> SsnToken],
       [pattern |-> CreditCardPattern, replacement |-> CreditCardToken],
       [pattern |-> SkLivePattern,     replacement |-> ApiKeyToken],
       [pattern |-> SkTestPattern,     replacement |-> ApiKeyToken],
       [pattern |-> ApiKeyPattern,     replacement |-> ApiKeyToken],
       [pattern |-> JwtPattern,        replacement |-> JwtToken],
       [pattern |-> IpPattern,         replacement |-> IpToken],
       [pattern |-> PasswordPattern,   replacement |-> PasswordToken] >>

\* the for loop of sanitizeTextForEgress (lines 95-97): every pattern, in order
RECURSIVE ApplyFrom(_, _, _)
ApplyFrom(patterns, k, s) ==
    IF k > Len(patterns) THEN s
    ELSE LET t == ReplaceAll(patterns[k], s)
         \* an empty string stays empty; the test makes TLC compute t here,
         \* before the next pattern's matcher recurses over it
         IN  IF Len(t) = 0 THEN t ELSE ApplyFrom(patterns, k + 1, t)

ApplyPatterns(s) == ApplyFrom(SENSITIVE_PATTERNS, 1, s)


----------------------------------------------------------------------------
(* sanitizeTextForEgress, egressGuard.ts lines 80-100                      *)

\* The mask the @redactpii/node layer writes over what it takes for PII
PiiMask == <<"P","E","R","S","O","N","_","N","A","M","E">>

IsWordStart(s, i) == s[i] \notin Space /\ (i = 1 \/ s[i - 1] \in Space)
IsWordEnd(s, j) == s[j] \notin Space /\ (j = Len(s) \/ s[j + 1] \in Space)

\* the first word of s (a maximal run of non-space characters) masked
MaskFirstWord(s) ==
    IF \A i \in 1..Len(s) : s[i] \in Space
    THEN s
    ELSE LET i == CHOOSE a \in 1..Len(s) :
                      IsWordStart(s, a) /\ \A k \in 1..(a - 1) : s[k] \in Space
             j == CHOOSE e \in i..Len(s) :
                      IsWordEnd(s, e) /\ \A k \in i..e : s[k] \notin Space
         IN  SubSeq(s, 1, i - 1) \o PiiMask \o SubSeq(s, j + 1, Len(s))

\* The detector behind redactPii (lines 47-48) is a third-party library, one
\* instance per process: it finds nothing, or masks a word it takes for a
\* name, or throws.
Redactors == {"finds_nothing", "masks_first_word", "throws"}

\* lines 88-92: the text after the try block; a throw leaves it as it was
redactPii(s) ==
    CASE redactor = "masks_first_word" -> MaskFirstWord(s)
      [] OTHER -> s

sanitizeTextForEgress(text) ==
    IF Len(text) = 0 THEN <<>> ELSE ApplyPatterns(redactPii(text))

----------------------------------------------------------------------------
(* Inputs of the text sanitizer: up to MaxTokens fragments in a row        *)

MaxTokens == 2

TextTokens ==
    { <<"1","2","3","-","4","5","-","6","7","8","9">>,
      <<"5","5","5","5","5","5">>,
      <<"1">>,
      <<"-">>,
      <<" ">>,
      <<"x">>,
      <<"a","@","b",".","c","o">>,
      <<"P","a","s","s","w","o","r","d",":">>,
      <<"1",".","2",".","3",".","4">>,
      <<"s","k","_","l","i","v","e","_">>,
      <<"s","k","_","t","e","s","t","_">>,
      <<"a","p","i","_","k","e","y","=">>,
      <<"A","p","i","K","e","y",":"," ">>,
      <<"a","b","c","d","e","f","g","h","i","j","0","1","2","3","4","5","6","7","8","9">>,
      <<"e","y","J","h",".","e","y","J","z",".","s","i","g">>,
      <<"4","4","4","4"," ","4","4","4","4"," ">> }

RECURSIVE TokenStrings(_)
TokenStrings(n) ==
    IF n = 0 THEN {<<>>}
    ELSE LET shorter == TokenStrings(n - 1)
         IN  shorter \cup {s \o t : s \in shorter, t \in TextTokens}

TextInputs == TokenStrings(MaxTokens)

TextOff ==
    /\ textIn = <<>>
    /\ textOut = <<>>
    /\ textPrev = <<>>
    /\ textPc = "off"

TextStart ==
    /\ textIn \in TextInputs
    /\ textOut = <<>>
    /\ textPrev = <<>>
    /\ textPc = "input"

\* one call of sanitizeTextForEgress(textIn)
SanitizeText ==
    /\ textPc = "input"
    /\ textOut' = sanitizeTextForEgress(textIn)
    /\ textPc' = "once"
    /\ UNCHANGED <<redactor, textIn, textPrev, notText>>

\* the deterministic pass run again over text that is already redacted
\* (a body preview of sanitizeHttp.ts reaches llmSanitizationAspect again)
ApplyPatternsAgain ==
    /\ textPc = "once"
    /\ textPrev' = textOut
    /\ textOut' = ApplyPatterns(textOut)
    /\ textPc' = "twice"
    /\ UNCHANGED <<redactor, textIn, notText>>

----------------------------------------------------------------------------
(* sanitizeObjectForEgress (lines 105-127)                                 *)
(* A JavaScript value is a record tagged with its type.                    *)

Str(s) == [t |-> "string", v |-> s]
Num(n) == [t |-> "number", v |-> n]
Bool(b) == [t |-> "boolean", v |-> b]
Null == [t |-> "null"]
Undefined == [t |-> "undefined"]
Arr(items) == [t |-> "array", v |-> items]
Obj(fields) == [t |-> "object", v |-> fields]

\* a sanitizer that goes one level down and no further
sanitizeObjectOneLevel(obj) ==
    LET leaf(item) == IF item.t = "string"
                      THEN Str(sanitizeTextForEgress(item.v))
                      ELSE item
    IN  CASE obj.t = "array" -> Arr([i \in 1..Len(obj.v) |-> leaf(obj.v[i])])
          [] obj.t = "object" -> Obj([key \in DOMAIN obj.v |-> leaf(obj.v[key])])
          [] OTHER -> leaf(obj)

RECURSIVE sanitizeObjectForEgress(_)
sanitizeObjectForEgress(obj) ==
    CASE obj.t \in {"null", "undefined"} -> obj
      [] obj.t = "string" -> Str(sanitizeTextForEgress(obj.v))
      [] obj.t = "array" ->
            Arr([i \in 1..Len(obj.v) |-> sanitizeObjectForEgress(obj.v[i])])
      [] obj.t = "object" ->
            Obj([key \in DOMAIN obj.v |-> sanitizeObjectForEgress(obj.v[key])])
      [] OTHER -> obj

\* Inputs: every value of at most MaxNodes nodes over these leaves and keys
MaxNodes == 4

ObjLeaves ==
    { Str(<<>>), Str(<<"1","2","3","-","4","5","-","6","7","8","9">>),
      Num(0), Bool(FALSE),
      Null, Undefined }

\* the mappings that hold the values of f, in order, under the keys
ObjectsOf(f) ==
    CASE Len(f) = 0 -> {Obj(<<>>)}
      [] Len(f) = 1 -> {Obj([key \in {"query"} |-> f[1]])}
      [] Len(f) = 2 -> {Obj([key \in {"query", "params"} |->
                                IF key = "query" THEN f[1] ELSE f[2]])}
      [] OTHER -> {}

\* Values(n): the values of exactly n nodes; Forests(n): the sequences of
\* values of n nodes in all
RECURSIVE Values(_), Forests(_)
Values(n) ==
    LET children == Forests(n - 1)
    IN  (IF n = 1 THEN ObjLeaves ELSE {})
          \cup {Arr(f) : f \in children}
          \cup UNION {ObjectsOf(f) : f \in children}

Forests(n) ==
    IF n = 0
    THEN {<<>>}
    ELSE UNION { {<<val>> \o f : val \in Values(k), f \in Forests(n - k)} :
                     k \in 1..n }

ObjInputs == UNION {Values(n) : n \in 1..MaxNodes}

ObjOff ==
    /\ objIn = Null
    /\ objOut = Null
    /\ objPc = "off"

ObjStart ==
    /\ objIn \in ObjInputs
    /\ objOut = Null
    /\ objPc = "input"

\* one call of sanitizeObjectForEgress(objIn)
SanitizeObject ==
    /\ objPc = "input"
    /\ objOut' = sanitizeObjectForEgress(objIn)
    /\ objPc' = "done"
    /\ UNCHANGED <<redactor, objIn, notObj>>

----------------------------------------------------------------------------
(* sanitizeObjectForEgress (lines 105-127) over objects on the heap        *)
(* A container holds references, so a caller can build one that holds      *)
(* itself. The recursion is followed one activation at a time.             *)

\* the cells of the heap, and how many activations the engine's call stack
\* holds before it throws RangeError; a heap without a cycle is never
\* deeper than MaxCells, and MaxCells < EngineStackDepth
MaxCells == 2
EngineStackDepth == 5

Cells == 1..MaxCells

\* the references one container holds, in order
KidSeqs == {<<>>} \cup {<<a>> : a \in Cells} \cup {<<a, b>> : a, b \in Cells}

HeapCells ==
    {[t |-> "string"]} \cup {[t |-> "container", kids |-> k] : k \in KidSeqs}

\* an activation: the cell it was called on and how many of the cell's
\* items (lines 114-116) or entries (lines 119-123) it has done
Activation(cell) == [cell |-> cell, done |-> 0]

Top == callStack[Len(callStack)]

\* the innermost activation is at a recursive call (line 115 or 121)
AtCall ==
    /\ walkStatus = "running"
    /\ IF heap[Top.cell].t = "container"
       THEN Top.done < Len(heap[Top.cell].kids)
       ELSE FALSE

\* the innermost activation is at a return (lines 107, 111, 115, 123, 126)
AtReturn ==
    /\ walkStatus = "running"
    /\ IF heap[Top.cell].t = "string"
       THEN TRUE
       ELSE Top.done = Len(heap[Top.cell].kids)

WalkOff ==
    /\ heap = <<>>
    /\ callStack = <<>>
    /\ walkStatus = "off"

\* sanitizeObjectForEgress is called on cell 1
WalkStart ==
    /\ heap \in [Cells -> HeapCells]
    /\ callStack = <<Activation(1)>>
    /\ walkStatus = "running"

WalkCall ==
    /\ AtCall
    /\ Len(callStack) < EngineStackDepth
    /\ callStack' = Append(callStack, Activation(heap[Top.cell].kids[Top.done + 1]))
    /\ UNCHANGED <<redactor, heap, walkStatus, notWalk>>

\* nothing between the call and the caller of the outermost activation
\* catches the RangeError
WalkOverflow ==
    /\ AtCall
    /\ Len(callStack) = EngineStackDepth
    /\ callStack' = <<>>
    /\ walkStatus' = "RangeError"
    /\ UNCHANGED <<redactor, heap, notWalk>>

WalkReturn ==
    /\ AtReturn
    /\ IF Len(callStack) = 1
       THEN /\ callStack' = <<>>
            /\ walkStatus' = "returned"
       ELSE /\ callStack' =
                 LET n == Len(callStack) - 1
                 IN  [SubSeq(callStack, 1, n) EXCEPT ![n].done = @ + 1]
            /\ UNCHANGED walkStatus
    /\ UNCHANGED <<redactor, heap, notWalk>>

----------------------------------------------------------------------------
(* sanitizeHttp.ts: the header filter and the body fields of a sanitized   *)
(* exchange. method, url, httpVersion and status are copied or computed    *)
(* from fields that hold no header and are left out.                       *)

SENSITIVE_HEADERS ==
    << <<"a","u","t","h","o","r","i","z","a","t","i","o","n">>,
       <<"c","o","o","k","i","e">>,
       <<"s","e","t","-","c","o","o","k","i","e">>,
       <<"x","-","a","p","i","-","k","e","y">>,
       <<"x","-","a","u","t","h","-","t","o","k","e","n">>,
       <<"x","-","a","c","c","e","s","s","-","t","o","k","e","n">>,
       <<"x","-","c","s","r","f","-","t","o","k","e","n">>,
       <<"x","-","x","s","r","f","-","t","o","k","e","n">>,
       <<"p","r","o","x","y","-","a","u","t","h","o","r","i","z","a","t","i","o","n">>,
       <<"w","w","w","-","a","u","t","h","e","n","t","i","c","a","t","e">> >>

\* a check against the list that leaves the case of the name as it is
isSensitiveHeaderExact(headerName) ==
    headerName \in SeqRange(SENSITIVE_HEADERS)

isSensitiveHeader(headerName) ==
    LowerCaseStr(headerName) \in SeqRange(SENSITIVE_HEADERS)

\* String.prototype.includes, startsWith and trim
includes(s, sub) ==
    \E i \in 1..(Len(s) - Len(sub) + 1) : SubSeq(s, i, i + Len(sub) - 1) = sub

startsWith(s, sub) == Len(sub) <= Len(s) /\ SubSeq(s, 1, Len(sub)) = sub

trim(s) ==
    IF \A i \in 1..Len(s) : s[i] \in Space
    THEN <<>>
    ELSE LET a == CHOOSE i \in 1..Len(s) :
                      s[i] \notin Space /\ \A k \in 1..(i - 1) : s[k] \in Space
             b == CHOOSE i \in 1..Len(s) :
                      s[i] \notin Space /\ \A k \in (i + 1)..Len(s) : s[k] \in Space
         IN  SubSeq(s, a, b)

\* [\x20-\x7E]: the printable characters of ASCII that the texts of the
\* model are written with
Printable ==
    Alnum \cup {" ","!","#","$","%","&","(",")","*","+",",","-",".",
                "/",":",";","<","=",">","?","@","[","]","_","{","|","}","~"}

\* JSON.parse succeeds: the JSON texts among the bodies of the model
JsonParses(body) == trim(body) \in {<<"{","}">>, <<"[","]">>}

\* a header that is not there reads as the empty string here (undefined in
\* the source: both are falsy at line 93 and give '' at line 15)
HeaderOr(headers, name) == IF name \in DOMAIN headers THEN headers[name] ELSE <<>>

ContentTypeOf(headers) ==
    LET lower == HeaderOr(headers, <<"c","o","n","t","e","n","t","-","t","y","p","e">>)
    IN  IF Len(lower) > 0 THEN lower ELSE HeaderOr(headers, <<"C","o","n","t","e","n","t","-","T","y","p","e">>)

detectBodyKind(body, contentType) ==
    LET ct == LowerCaseStr(contentType)
        t == trim(body)
    IN  IF Len(t) = 0 THEN "empty"
        ELSE IF /\ \/ includes(ct, <<"a","p","p","l","i","c","a","t","i","o","n","/","j","s","o","n">>)
                   \/ startsWith(t, <<"{">>)
                   \/ startsWith(t, <<"[">>)
                /\ JsonParses(body)
        THEN "json"
        ELSE IF \/ includes(ct, <<"t","e","x","t","/","h","t","m","l">>)
                \/ includes(body, <<"<","h","t","m","l">>)
                \/ includes(body, <<"<","!","D","O","C","T","Y","P","E">>)
        THEN "html"
        ELSE IF \/ includes(ct, <<"t","e","x","t","/">>)
                \/ \A i \in 1..Len(body) : body[i] \in Printable \cup Space
        THEN "text"
        ELSE "unknown"

maxLength == 200

createBodyPreview(body) ==
    IF Len(trim(body)) = 0
    THEN <<>>
    ELSE LET preview == IF Len(body) > maxLength
                        THEN SubSeq(body, 1, maxLength) \o <<".", ".", ".">>
                        ELSE body
         IN  sanitizeTextForEgress(preview)

\* Object.keys(headers).filter(name => !isSensitiveHeader(name)): the names
\* are kept as a set, the order of the keys is not looked at
FilterHeaderNames(headers) ==
    {name \in DOMAIN headers : ~isSensitiveHeader(name)}

SanitizeSide(side) ==
    [ headerNames |-> FilterHeaderNames(side.headers),
      bodyKind |-> detectBodyKind(side.body, ContentTypeOf(side.headers)),
      bodyPreview |-> createBodyPreview(side.body) ]

sanitizeHttpExchange(raw) ==
    [ request |-> SanitizeSide(raw.request),
      response |-> SanitizeSide(raw.response) ]

\* Inputs: the headers of one message are up to MaxHeaders of these, each
\* with its value
MaxHeaders == 2

HeaderPool ==
    (<<"A","u","t","h","o","r","i","z","a","t","i","o","n">> :> <<"B","e","a","r","e","r"," ","t","0","k">>) @@
    (<<"A","U","T","H","O","R","I","Z","A","T","I","O","N">> :> <<"B","e","a","r","e","r"," ","t","0","k">>) @@
    (<<"S","e","t","-","C","o","o","k","i","e">> :> <<"s","i","d","=","1">>) @@
    (<<"X","-","A","p","i","-","K","e","y">> :> <<"k","1">>) @@
    (<<"x","-","a","p","i","-","k","e","y","s">> :> <<"k","1">>) @@
    (<<"c","o","n","t","e","n","t","-","t","y","p","e">> :> <<"t","e","x","t","/","h","t","m","l">>) @@
    (<<"C","o","n","t","e","n","t","-","T","y","p","e">> :> <<"a","p","p","l","i","c","a","t","i","o","n","/","j","s","o","n">>)

HeaderSets ==
    {names \in SUBSET (DOMAIN HeaderPool) : Cardinality(names) <= MaxHeaders}

\* the bodies of a request and of its response
BodyPairs ==
    { << <<>>, <<"{","}">> >>,
      << <<"{","}">>, <<"i","d"," ","1","2","3","-","4","5","-","6","7","8","9">> >> }

RawMessage(names, body) ==
    [headers |-> [name \in names |-> HeaderPool[name]], body |-> body]

NoExchange == [request |-> RawMessage({}, <<>>), response |-> RawMessage({}, <<>>)]

HttpOff ==
    /\ httpRaw = NoExchange
    /\ httpOut = NoExchange
    /\ httpPc = "off"

HttpStart ==
    /\ \E reqNames \in HeaderSets, resNames \in HeaderSets, bodies \in BodyPairs :
          httpRaw = [request |-> RawMessage(reqNames, bodies[1]),
                     response |-> RawMessage(resNames, bodies[2])]
    /\ httpOut = NoExchange
    /\ httpPc = "raw"

\* one call of sanitizeHttpExchange(httpRaw)
SanitizeHttpExchange ==
    /\ httpPc = "raw"
    /\ httpOut' = sanitizeHttpExchange(httpRaw)
    /\ httpPc' = "sanitized"
    /\ UNCHANGED <<redactor, httpRaw, notHttp>>

----------------------------------------------------------------------------
(* aspects/applyAspects.ts: the aspect composer                            *)
(* A callable built by applyAspects is the sequence of the aspects that    *)
(* wrap the base function, outermost first; the empty sequence is the base *)
(* function itself. A request is the sequence of the marks the aspects     *)
(* have put on it.                                                         *)

\* The aspects of the source: one that logs around next and rethrows
\* (mcpLoggingAspect), one that rewrites the request and returns what next
\* returns (mcpSanitizationAspect, llmSystemPromptAspect), and one that
\* answers without calling next
AspectKinds == {"logging", "rewriting", "short_circuit"}

MaxAspects == 3

\* the i-th aspect of a list carries i as its name
AspectLists ==
    UNION { {[i \in 1..n |-> [id |-> i, kind |-> kinds[i]]] :
                 kinds \in [1..n -> AspectKinds]} : n \in 0..MaxAspects }

\* the order in which a fold from the left visits the n elements
reduceOrder(n) == [i \in 1..n |-> i]

\* Array.prototype.reduceRight visits the last element first
reduceRightOrder(n) == [i \in 1..n |-> n + 1 - i]

\* (next, aspect) => (req) => aspect(req, next)
WrapWith(aspect, next) == <<aspect>> \o next

RECURSIVE FoldAspects(_, _, _, _)
FoldAspects(list, order, k, next) ==
    IF k > Len(order)
    THEN next
    ELSE FoldAspects(list, order, k + 1, WrapWith(list[order[k]], next))

\* the base function is the initial value of the fold
applyAspects(list) ==
    FoldAspects(list, reduceRightOrder(Len(list)), 1, <<>>)

Event(e, by) == [e |-> e, by |-> by]

\* One call of a composed callable: what happened in which order, the
\* request the base function saw (<<"none">> if it was not called) and how
\* the call ended
RECURSIVE Invoke(_, _, _)
Invoke(callable, req, throws) ==
    IF Len(callable) = 0
    THEN [ events |-> <<Event("base", 0)>>,
           baseReq |-> req,
           outcome |-> IF throws THEN "threw" ELSE "returned" ]
    ELSE LET aspect == Head(callable)
             pre == <<Event("pre", aspect.id)>>
             post == <<Event("post", aspect.id)>>
         IN  IF aspect.kind = "short_circuit"
             THEN [ events |-> pre, baseReq |-> <<"none">>, outcome |-> "returned" ]
             ELSE LET sent == IF aspect.kind = "rewriting"
                              THEN Append(req, aspect.id)
                              ELSE req
                      inner == Invoke(Tail(callable), sent, throws)
                      \* the catch block of the logging aspect runs on a throw
                      after == IF inner.outcome = "returned" \/ aspect.kind = "logging"
                               THEN post
                               ELSE <<>>
                  IN  [inner EXCEPT !.events = pre \o @ \o after]

NoCall == [events |-> <<>>, baseReq |-> <<"none">>, outcome |-> "none"]

Requests == {<<>>, <<0>>}

AspOff ==
    /\ aspects = <<>>
    /\ composed = <<>>
    /\ aspReq = <<>>
    /\ baseThrows = FALSE
    /\ aspCall = NoCall
    /\ aspPc = "off"

AspStart ==
    /\ aspects \in AspectLists
    /\ composed = <<>>
    /\ aspReq \in Requests
    /\ baseThrows \in BOOLEAN
    /\ aspCall = NoCall
    /\ aspPc = "list"

\* composed = applyAspects(base, aspects)
ApplyAspects ==
    /\ aspPc = "list"
    /\ composed' = applyAspects(aspects)
    /\ aspPc' = "composed"
    /\ UNCHANGED <<redactor, aspects, aspReq, baseThrows, aspCall, notAsp>>

\* await composed(aspReq)
CallComposed ==
    /\ aspPc = "composed"
    /\ aspCall' = Invoke(composed, aspReq, baseThrows)
    /\ aspPc' = "called"
    /\ UNCHANGED <<redactor, aspects, composed, aspReq, baseThrows, notAsp>>

----------------------------------------------------------------------------
(* mcpClient.ts and localMemgraphClient.ts: the tool calls that leave      *)

\* what the gateway does with one request: the fetch rejects, it answers
\* non-2xx with a body that is no envelope, non-2xx with an envelope whose
\* error field is populated, 2xx with such an envelope, or 2xx with a result
GatewayAnswers ==
    { "network_error", "http_error_plain", "http_error_envelope",
      "ok_error_envelope", "ok_result" }

\* the texts a caller hands over as query
Queries == { <<"M","A","T","C","H">>, <<"a","@","b",".","c","o">> }

McpResponse(result, error) ==
    [threw |-> FALSE, name |-> "none", result |-> result, error |-> error]

\* lines 31-79; "none" is an MCPCallResponse without error field, and a
\* rejected fetch leaves the function as the TypeError of the platform
baseMcpCall(params, answer) ==
    CASE answer = "network_error" ->
            [threw |-> TRUE, name |-> "TypeError", result |-> "null",
             error |-> "fetch failed"]
      [] answer \in {"http_error_plain", "http_error_envelope"} ->
            McpResponse("null", "MCP call failed")
      [] answer = "ok_error_envelope" -> McpResponse("null", "MCP error")
      [] OTHER -> McpResponse("result", "none")

\* lines 84-92
mcpSanitizationAspect(req) ==
    [toolName |-> req.toolName, params |-> sanitizeObjectForEgress(req.params)]

\* lines 115-118: the list handed to applyAspects
McpAspects == <<"mcpLoggingAspect", "mcpSanitizationAspect">>

\* the request that leaves the aspects of a callable, outermost first;
\* mcpLoggingAspect (lines 97-110) hands its request on as it is
RECURSIVE RequestAfter(_, _)
RequestAfter(callable, req) ==
    IF Len(callable) = 0
    THEN req
    ELSE RequestAfter(Tail(callable),
                      IF Head(callable) = "mcpSanitizationAspect"
                      THEN mcpSanitizationAspect(req)
                      ELSE req)

\* mcpCall(req): what is transmitted and what comes back
mcpCall(req, answer) ==
    LET sent == RequestAfter(applyAspects(McpAspects), req)
    IN  [sent |-> sent, response |-> baseMcpCall(sent, answer)]

NothingSent == [via |-> "none", toolName |-> "none", arguments |-> Null, raw |-> Null]

Transmitted(via, toolName, arguments, raw) ==
    [via |-> via, toolName |-> toolName, arguments |-> arguments, raw |-> raw]

NoOutcome == [how |-> "none", name |-> "none", message |-> "none"]
Returned == [how |-> "returned", name |-> "none", message |-> "none"]
Threw(name, message) == [how |-> "threw", name |-> name, message |-> message]

\* what the spec calls the failure behind an answer
FailureKind(answer) ==
    CASE answer \in {"network_error", "http_error_plain"} -> "transport"
      [] answer \in {"http_error_envelope", "ok_error_envelope"} -> "tool"
      [] OTHER -> "none"

\* callPerplexityMcp, callMemgraphMcp and getMemgraphSchema (lines 124-176)
\* are one body with three tool names
ToolCall(toolName, args, answer) ==
    IF ~mcpGatewayConfigured
    THEN /\ gwOutcome' = Threw("Error", "MCP gateway not configured")
         /\ UNCHANGED <<wire, errorsSeen>>
    ELSE \E call \in {mcpCall([toolName |-> toolName, params |-> args], answer)} :
            LET outcome == IF call.response.threw
                           THEN Threw(call.response.name, call.response.error)
                           ELSE IF call.response.error # "none"
                           THEN Threw("Error", call.response.error)
                           ELSE Returned
            IN  /\ wire' = Transmitted("baseMcpCall", call.sent.toolName,
                                       call.sent.params, args)
                /\ gwOutcome' = outcome
                /\ errorsSeen' =
                      IF outcome.how = "threw"
                      THEN errorsSeen \cup {[kind |-> FailureKind(answer),
                                             name |-> outcome.name,
                                             message |-> outcome.message]}
                      ELSE errorsSeen

GwOff ==
    /\ mcpGatewayConfigured = FALSE
    /\ wire = NothingSent
    /\ gwOutcome = NoOutcome
    /\ errorsSeen = {}

GwStart == GwOff

\* lines 15-18
ConfigureMcpGateway ==
    /\ ~mcpGatewayConfigured
    /\ mcpGatewayConfigured' = TRUE
    /\ UNCHANGED <<redactor, wire, gwOutcome, errorsSeen, notGw>>

CallPerplexityMcp ==
    \E query \in Queries, answer \in GatewayAnswers :
        /\ ToolCall("perplexity.perplexity_ask", Obj([key \in {"query"} |-> Str(query)]),
                    answer)
        /\ UNCHANGED <<redactor, mcpGatewayConfigured, notGw>>

CallMemgraphMcp ==
    \E cypherQuery \in Queries, answer \in GatewayAnswers :
        /\ ToolCall("memgraph_mcp.run_query",
                    Obj([key \in {"query"} |-> Str(cypherQuery)]), answer)
        /\ UNCHANGED <<redactor, mcpGatewayConfigured, notGw>>

GetMemgraphSchema ==
    \E answer \in GatewayAnswers :
        /\ ToolCall("memgraph_mcp.get_schema", Obj(<<>>), answer)
        /\ UNCHANGED <<redactor, mcpGatewayConfigured, notGw>>

\* localMemgraphClient.ts lines 19-90: the tools/call request is built from
\* the query as it came and posted by fetch; every failure is returned in
\* the error field of the result, none is thrown
QueryMemgraphLocal ==
    \E cypherQuery \in Queries, answer \in GatewayAnswers :
        LET args == Obj([key \in {"query"} |-> Str(cypherQuery)])
        IN  /\ wire' = Transmitted("queryMemgraphLocal", "run_query", args, args)
            /\ gwOutcome' = Returned
            /\ UNCHANGED <<redactor, mcpGatewayConfigured, errorsSeen, notGw>>

----------------------------------------------------------------------------
(* The gateway client with candidate wire names (an earlier mcpClient.ts,  *)
(* kept as unnamed/part_010): one POST to /tools/<name> per call, and      *)
(* callPerplexityMcp tries two names. Every call goes through mcpCall as   *)
(* above; what is followed here is which names are called and what the    *)
(* caller gets.                                                            *)

\* part_010 lines 105-108
toolNames == <<"perplexity.perplexity_ask", "perplexity_mcp.search">>

\* part_010 lines 32-58: a response that is not ok gives the error field,
\* any other body is parsed and returned as the result, an envelope with a
\* populated error field included
baseMcpCallRest(answer) ==
    CASE answer = "network_error" ->
            [threw |-> TRUE, name |-> "TypeError", result |-> "null",
             error |-> "fetch failed"]
      [] answer \in {"http_error_plain", "http_error_envelope"} ->
            McpResponse("null", "MCP call failed")
      [] answer = "ok_error_envelope" -> McpResponse("error_envelope", "none")
      [] OTHER -> McpResponse("result", "none")

NoResult == [how |-> "none", from |-> 0, value |-> "none"]

FbOff ==
    /\ fbToken = FALSE
    /\ fbQuery = <<>>
    /\ fbCalls = <<>>
    /\ fbLastError = "undefined"
    /\ fbResult = NoResult
    /\ fbPc = "off"

FbStart ==
    /\ fbToken \in BOOLEAN
    /\ fbQuery = <<>>
    /\ fbCalls = <<>>
    /\ fbLastError = "undefined"
    /\ fbResult = NoResult
    /\ fbPc = "idle"

\* part_010 lines 17-20: the token of an E2B gateway replaces the one in use
ConfigureGatewayToken ==
    /\ fbPc \in {"idle", "done"}
    /\ fbToken' = ~fbToken
    /\ UNCHANGED <<redactor, fbQuery, fbCalls, fbLastError, fbResult, fbPc, notFb>>

\* callPerplexityMcp is called: lines 105-110
StartCallPerplexity ==
    /\ fbPc \in {"idle", "done"}
    /\ fbQuery' \in Queries
    /\ fbCalls' = <<>>
    /\ fbLastError' = "undefined"
    /\ fbResult' = NoResult
    /\ fbPc' = "loop"
    /\ UNCHANGED <<redactor, fbToken, notFb>>

\* one turn of the loop, lines 112-123: the next name is called, and the
\* function returns, is left by a rejected fetch, or goes on
TryCandidate ==
    /\ fbPc = "loop"
    /\ Len(fbCalls) < Len(toolNames)
    /\ \E answer \in GatewayAnswers :
          LET k == Len(fbCalls) + 1
              req == [toolName |-> toolNames[k],
                      params |-> Obj([key \in {"query"} |-> Str(fbQuery)])]
              response == baseMcpCallRest(answer)
          IN  /\ \E sent \in {RequestAfter(applyAspects(McpAspects), req)} :
                    fbCalls' = Append(fbCalls, [toolName |-> sent.toolName,
                                                body |-> sent.params,
                                                authorization |-> fbToken,
                                                answer |-> answer])
              /\ IF response.threw
                 THEN /\ fbResult' = [how |-> "threw", from |-> k,
                                      value |-> response.error]
                      /\ fbPc' = "done"
                      /\ UNCHANGED fbLastError
                 ELSE IF response.error = "none"
                 THEN /\ fbResult' = [how |-> "returned", from |-> k,
                                      value |-> response.result]
                      /\ fbPc' = "done"
                      /\ UNCHANGED fbLastError
                 ELSE /\ fbLastError' = response.error
                      /\ UNCHANGED <<fbResult, fbPc>>
    /\ UNCHANGED <<redactor, fbToken, fbQuery, notFb>>

\* line 125, after the last name
ThrowLastError ==
    /\ fbPc = "loop"
    /\ Len(fbCalls) = Len(toolNames)
    /\ fbResult' = [how |-> "threw", from |-> 0,
                    value |-> IF fbLastError = "undefined"
                              THEN "Failed to call Perplexity MCP"
                              ELSE fbLastError]
    /\ fbPc' = "done"
    /\ UNCHANGED <<redactor, fbToken, fbQuery, fbCalls, fbLastError, notFb>>

----------------------------------------------------------------------------
(* groqClient.ts (unnamed/part_008) and app/api/chat/route.ts: the         *)
(* messages that leave for the completion service                          *)

ChatMessage(role, content) == [role |-> role, content |-> content]

\* the prompts are long texts without anything to redact; a short one
\* stands for each
AUDITOR_SYSTEM_PROMPT == <<"a","u","d","i","t","o","r">>
SYSTEM_PROMPT == <<"a","s","s","i","s","t","a","n","t">>

\* part_008 lines 75-90
llmSystemPromptAspect(messages) ==
    IF \E i \in 1..Len(messages) : messages[i].role = "system"
    THEN messages
    ELSE <<ChatMessage("system", AUDITOR_SYSTEM_PROMPT)>> \o messages

\* part_008 lines 95-105
llmSanitizationAspect(messages) ==
    [i \in 1..Len(messages) |->
        ChatMessage(messages[i].role, sanitizeTextForEgress(messages[i].content))]

\* part_008 lines 110-113: the list handed to applyAspects
LlmAspects == <<"llmSystemPromptAspect", "llmSanitizationAspect">>

\* the messages that leave the aspects of a callable, outermost first
RECURSIVE MessagesAfter(_, _)
MessagesAfter(callable, messages) ==
    IF Len(callable) = 0
    THEN messages
    ELSE MessagesAfter(Tail(callable),
                       IF Head(callable) = "llmSystemPromptAspect"
                       THEN llmSystemPromptAspect(messages)
                       ELSE llmSanitizationAspect(messages))

\* Inputs: up to MaxMessages messages of a conversation
MaxMessages == 2

ChatContents == { <<"h","i">>, <<"a","@","b",".","c","o">> }

ChatMessages ==
    {ChatMessage(role, content) : role \in {"user", "system"}, content \in ChatContents}

Conversations ==
    UNION {[1..n -> ChatMessages] : n \in 0..MaxMessages}

NoCompletion == [via |-> "none", messages |-> <<>>, built |-> <<>>]

ChatOff ==
    /\ chatMessages = <<>>
    /\ llmSent = NoCompletion
    /\ chatPc = "off"

ChatStart ==
    /\ chatMessages \in Conversations
    /\ llmSent = NoCompletion
    /\ chatPc = "request"

\* groqChat({ messages: chatMessages }), part_008 lines 41-55 and 110-113:
\* built is the message list as the caller and the system prompt aspect
\* built it, messages is what baseGroqChat posts
GroqChat ==
    /\ chatPc = "request"
    /\ llmSent' = [via |-> "baseGroqChat",
                   messages |-> MessagesAfter(applyAspects(LlmAspects), chatMessages),
                   built |-> llmSystemPromptAspect(chatMessages)]
    /\ chatPc' = "sent"
    /\ UNCHANGED <<redactor, chatMessages, notChat>>

\* POST /api/chat with a last message that asks for no audit and no graph,
\* route.ts lines 51-55 and 222-249: streamText posts the system prompt and
\* the messages of the request body
PostChat ==
    /\ chatPc = "request"
    /\ IF Len(chatMessages) = 0
       THEN llmSent' = NoCompletion
       ELSE LET built == <<ChatMessage("system", SYSTEM_PROMPT)>> \o chatMessages
            IN  llmSent' = [via |-> "streamText", messages |-> built,
                            built |-> built]
    /\ chatPc' = "sent"
    /\ UNCHANGED <<redactor, chatMessages, notChat>>


----------------------------------------------------------------------------
(* The spec extractor: graphContext.ts lines 112-165, with the catalog of  *)
(* config/dynamicOwaspFetcher.ts. The patterns of the catalog carry the g  *)
(* flag and live as long as the catalog does, so RegExp.prototype.test     *)
(* starts at the lastIndex the call before left behind.                    *)

\* /RFC\s*(\d+)/gi, graphContext.ts line 113
RfcPattern == <<WordI(<<"R","F","C">>), Star(Space), Plus(Digit)>>

\* String.prototype.matchAll: the matches [from, to) left to right, none
\* overlapping, on a fresh copy of the expression
RECURSIVE matchAll(_, _, _)
matchAll(items, s, i) ==
    IF i > Len(s) THEN <<>>
    ELSE LET e == MatchFrom(items, 1, s, i)
         IN  IF e > i
             THEN <<[from |-> i, to |-> e]>> \o matchAll(items, s, e)
             ELSE matchAll(items, s, i + 1)

\* match[1] of RfcPattern: "RFC" and the white space hold no digit
RfcNumber(s, m) == SelectSeq(SubSeq(s, m.from, m.to - 1), LAMBDA c : c \in Digit)

\* Set.prototype.add on a set kept in insertion order
SetAdd(list, x) == IF \E j \in DOMAIN list : list[j] = x THEN list ELSE Append(list, x)

RECURSIVE RfcSet(_, _, _, _)
RfcSet(s, matches, k, acc) ==
    IF k > Len(matches) THEN acc
    ELSE RfcSet(s, matches, k + 1, SetAdd(acc, RfcNumber(s, matches[k])))

extractRfcSpecs(text) ==
    LET rfcSet == RfcSet(text, matchAll(RfcPattern, text, 1), 1, <<>>)
    IN  [k \in DOMAIN rfcSet |->
            [type |-> "rfc", id |-> <<"R","F","C">> \o rfcSet[k],
             title |-> <<"R","F","C"," ">> \o rfcSet[k], version |-> "none"]]

\* DEFAULT_OWASP_CATEGORIES, dynamicOwaspFetcher.ts lines 31-92: the entries
\* A03 and A06 of the ten, which are all written the same way
DEFAULT_OWASP_CATEGORIES ==
    <<[id |-> <<"A","0","3",":","2","0","2","1">>, title |-> <<"I","n","j","e","c","t","i","o","n">>,
       pattern |-> <<WordI(<<"A","0","3">>), DotStar, WordI(<<"I","n","j","e","c","t","i","o","n">>)>>,
       keywords |-> <<<<"i","n","j","e","c","t","i","o","n">>, <<"s","q","l"," ","i","n","j","e","c","t","i","o","n">>, <<"x","s","s">>, <<"c","o","m","m","a","n","d"," ","i","n","j","e","c","t","i","o","n">>>>],
      [id |-> <<"A","0","6",":","2","0","2","1">>, title |-> <<"V","u","l","n","e","r","a","b","l","e"," ","a","n","d"," ","O","u","t","d","a","t","e","d"," ","C","o","m","p","o","n","e","n","t","s">>,
       pattern |-> <<WordI(<<"A","0","6">>), DotStar, WordI(<<"V","u","l","n","e","r","a","b","l","e">>), DotStar,
                     WordI(<<"C","o","m","p","o","n","e","n","t","s">>)>>,
       keywords |-> <<<<"v","u","l","n","e","r","a","b","l","e"," ","c","o","m","p","o","n","e","n","t","s">>, <<"o","u","t","d","a","t","e","d">>, <<"d","e","p","e","n","d","e","n","c","i","e","s">>>>]>>

\* String.prototype.split on the characters of a set, empty pieces kept
RECURSIVE split(_, _, _)
split(s, seps, piece) ==
    IF s = <<>> THEN <<piece>>
    ELSE IF Head(s) \in seps
         THEN <<piece>> \o split(Tail(s), seps, <<>>)
         ELSE split(Tail(s), seps, Append(piece, Head(s)))

\* split(/\s+/): runs of white space separate, so no piece between two
\* separators is empty
splitWords(s) == SelectSeq(split(s, Space, <<>>), LAMBDA w : w # <<>>)

\* titleWords.join('.*') as pattern items, after the id number
RECURSIVE JoinPattern(_, _)
JoinPattern(words, k) ==
    IF k > Len(words) \/ k > 3 THEN <<>>
    ELSE <<DotStar, WordI(words[k])>> \o JoinPattern(words, k + 1)

\* convertToOwaspCategories, dynamicOwaspFetcher.ts lines 171-190
convertToOwaspCategories(data) ==
    [k \in DOMAIN data |->
        [id |-> data[k].id, title |-> data[k].title,
         pattern |-> <<WordI(split(data[k].id, {":"}, <<>>)[1])>>
                         \o JoinPattern(splitWords(data[k].title), 1),
         keywords |-> [j \in DOMAIN data[k].keywords |->
                          LowerCaseStr(data[k].keywords[j])]]]

\* what a structuring completion returned: the same id twice, and keywords
\* in capitals
StructuredCategories ==
    <<[id |-> <<"A","0","3",":","2","0","2","5">>, title |-> <<"I","n","j","e","c","t","i","o","n">>, keywords |-> <<<<"X","S","S">>>>],
      [id |-> <<"A","0","3",":","2","0","2","5">>, title |-> <<"I","n","j","e","c","t","i","o","n"," ","F","l","a","w","s">>, keywords |-> <<<<"s","q","l"," ","i","n","j","e","c","t","i","o","n">>>>]>>

\* getOwaspCategories(), owaspCategories.ts lines 101-103
CatalogOf(which) ==
    IF which = "dynamic" THEN convertToOwaspCategories(StructuredCategories)
    ELSE DEFAULT_OWASP_CATEGORIES

\* RegExp.prototype.test of an expression with the g flag: the search starts
\* at lastIndex, a hit leaves lastIndex after the match, a miss leaves 0
test(items, s, lastIndex) ==
    IF lastIndex > Len(s) THEN [hit |-> FALSE, lastIndex |-> 0]
    ELSE LET starts == {i \in (lastIndex + 1)..Len(s) : MatchFrom(items, 1, s, i) > i}
         IN  IF starts = {} THEN [hit |-> FALSE, lastIndex |-> 0]
             ELSE LET i == CHOOSE j \in starts : \A m \in starts : j <= m
                  IN  [hit |-> TRUE, lastIndex |-> MatchFrom(items, 1, s, i) - 1]

\* (mutant) the keyword loop without its look at addedIds
NotAddedUnchecked(specs, id) == TRUE

\* !addedIds.has(category.id)
NotAdded(specs, id) == \A j \in DOMAIN specs : specs[j].id # id

OwaspSpec(category) ==
    [type |-> "owasp", id |-> category.id, title |-> category.title, version |-> "2021"]

\* the first loop of extractOwaspSpecs, lines 138-148: test runs on every
\* category, before addedIds is looked at
RECURSIVE PatternLoop(_, _, _, _, _)
PatternLoop(categories, k, text, lastIndexes, specs) ==
    IF k > Len(categories) THEN [specs |-> specs, lastIndexes |-> lastIndexes]
    ELSE LET t == test(categories[k].pattern, text, lastIndexes[k])
             added == t.hit /\ \A j \in DOMAIN specs : specs[j].id # categories[k].id
         IN  PatternLoop(categories, k + 1, text,
                         [lastIndexes EXCEPT ![k] = t.lastIndex],
                         IF added THEN Append(specs, OwaspSpec(categories[k])) ELSE specs)

\* findOwaspCategoriesByKeyword, owaspCategories.ts lines 164-169
findOwaspCategoriesByKeyword(categories, text) ==
    SelectSeq(categories,
              LAMBDA cat : \E j \in DOMAIN cat.keywords :
                              includes(LowerCaseStr(text), cat.keywords[j]))

\* the second loop, lines 151-162
RECURSIVE KeywordLoop(_, _, _)
KeywordLoop(keywordMatches, k, specs) ==
    IF k > Len(keywordMatches) THEN specs
    ELSE KeywordLoop(keywordMatches, k + 1,
                     IF NotAdded(specs, keywordMatches[k].id)
                     THEN Append(specs, OwaspSpec(keywordMatches[k]))
                     ELSE specs)

\* extractOwaspSpecs, lines 131-165: the entities, and the lastIndex it
\* leaves in every pattern
extractOwaspSpecs(categories, text, lastIndexes) ==
    LET first == PatternLoop(categories, 1, text, lastIndexes, <<>>)
    IN  [specs |-> KeywordLoop(findOwaspCategoriesByKeyword(categories, text), 1,
                               first.specs),
         lastIndexes |-> first.lastIndexes]

\* the mentions a research answer is made of
Mentions ==
    {<<"R","F","C"," ","7","2","3","1">>,
     <<"r","f","c","7","2","3","1">>,
     <<"A","0","3"," ","I","n","j","e","c","t","i","o","n">>,
     <<"A","0","6"," ","V","u","l","n","e","r","a","b","l","e"," ","O","l","d"," ","C","o","m","p","o","n","e","n","t","s">>,
     <<"x","s","s">>,
     <<"R","F","C"," ","9","1","1","0">>}

\* answers with no, one or two mentions
ExtractTexts ==
    {<<>>} \cup Mentions \cup {a \o <<" ">> \o b : a \in Mentions, b \in Mentions}

ExOff ==
    /\ exCatalog = "off"
    /\ exLastIndex = <<>>
    /\ exText = <<>>
    /\ exSpecs = <<>>
    /\ exPc = "off"

\* a catalog is in effect and none of its patterns has been used
ExStart ==
    /\ exCatalog \in {"default", "dynamic"}
    /\ exLastIndex = [k \in DOMAIN CatalogOf(exCatalog) |-> 0]
    /\ exText = <<>>
    /\ exSpecs = <<>>
    /\ exPc = "idle"

\* parseSpecsFromPerplexityResult and extractAndUpsertSpecsFromText on a
\* string, lines 97-106 and 278-286: the RFC entities, then the OWASP ones
ExtractSpecs ==
    /\ exPc \in {"idle", "extracted"}
    /\ \E text \in ExtractTexts :
          \E owasp \in {extractOwaspSpecs(CatalogOf(exCatalog), text, exLastIndex)} :
             /\ exText' = text
             /\ exSpecs' = extractRfcSpecs(text) \o owasp.specs
             /\ exLastIndex' = owasp.lastIndexes
    /\ exPc' = "extracted"
    /\ UNCHANGED <<redactor, exCatalog, notEx>>


----------------------------------------------------------------------------
(* The catalog cache: config/dynamicOwaspFetcher.ts lines 18-26 and        *)
(* 192-284. A call of fetchDynamicOwaspCategories is suspended at its two  *)
(* awaits, the research call and the structuring completion, and other     *)
(* calls run in between. clearOwaspCache, which ends the cache window on   *)
(* purpose, is left out. setOwaspCacheTtl, lines 293-299, is what         *)
(* configureOwaspCacheTtl of owaspCategories.ts (144-149) calls.           *)

\* CACHE_TTL_MS, line 18, in ticks of the clock
CacheTtlTicks == 2
\* the clock stops here
MaxClock == 4
\* the longest TTL a caller sets, in ticks
MaxTtl == 3
\* callers of fetchDynamicOwaspCategories
MaxFetchCalls == 2
\* the research tool is asked at most this often
MaxAsked == 3

FetchCalls == 1..MaxFetchCalls

NoCachedData == [set |-> FALSE, categories |-> "none", fetchedAt |-> 0]

\* isCacheValid, lines 195-198
isCacheValid == cachedData.set /\ catNow - cachedData.fetchedAt < CacheTtlTicks

\* getCurrentOwaspCategories, lines 267-272, which getOwaspCategories returns
getCurrentOwaspCategories == IF cachedData.set THEN cachedData.categories ELSE "default"

NotCalled == [pc |-> "idle", source |-> "none", categories |-> "none"]

ReturnedFrom(source, categories) ==
    [pc |-> "returned", source |-> source, categories |-> categories]

CatOff ==
    /\ cachedData = NoCachedData
    /\ catNow = 0
    /\ catGatewayUrl = FALSE
    /\ catCalls = <<>>
    /\ catAsked = <<>>
    /\ catLastSource = "off"
    /\ customTtl = CacheTtlTicks

CatStart ==
    /\ cachedData = NoCachedData
    /\ catNow = 0
    /\ catGatewayUrl \in BOOLEAN
    /\ catCalls = [c \in FetchCalls |-> NotCalled]
    /\ catAsked = <<>>
    /\ catLastSource = "none"
    /\ customTtl = CacheTtlTicks

\* setOwaspCacheTtl, lines 296-299: customTtl starts as CACHE_TTL_MS (see
\* CatStart) and takes the value handed over; nothing else is assigned
SetOwaspCacheTtl ==
    /\ catLastSource # "off"
    /\ \E ttlMs \in 1..MaxTtl : customTtl' = ttlMs
    /\ UNCHANGED <<redactor, cachedData, catNow, catGatewayUrl, catCalls, catAsked,
                   catLastSource, notCat>>

\* time passes
Tick ==
    /\ catLastSource # "off"
    /\ catNow < MaxClock
    /\ catNow' = catNow + 1
    /\ UNCHANGED <<redactor, cachedData, catGatewayUrl, catCalls, catAsked, catLastSource,
                   customTtl, notCat>>

\* fetchDynamicOwaspCategories up to its first await, lines 212-235: the
\* cached catalog, the default one without a gateway, or the research call
StartFetch(c) ==
    /\ catCalls[c].pc = "idle"
    /\ IF isCacheValid
       THEN /\ catCalls' = [catCalls EXCEPT ![c] = ReturnedFrom("cache", cachedData.categories)]
            /\ catLastSource' = "cache"
            /\ UNCHANGED catAsked
       ELSE IF ~catGatewayUrl
       THEN /\ catCalls' = [catCalls EXCEPT ![c] = ReturnedFrom("fallback", "default")]
            /\ catLastSource' = "fallback"
            /\ UNCHANGED catAsked
       ELSE /\ Len(catAsked) < MaxAsked
            /\ catAsked' = Append(catAsked, catNow)
            /\ catCalls' = [catCalls EXCEPT ![c].pc = "research"]
            /\ UNCHANGED catLastSource
    /\ UNCHANGED <<redactor, cachedData, catNow, catGatewayUrl, customTtl, notCat>>

\* the research call settles, lines 233-236 and 255-264
ResearchSettles(c) ==
    /\ catCalls[c].pc = "research"
    /\ \E ok \in BOOLEAN :
          IF ok
          THEN /\ catCalls' = [catCalls EXCEPT ![c].pc = "structure"]
               /\ UNCHANGED catLastSource
          ELSE /\ catCalls' = [catCalls EXCEPT ![c] = ReturnedFrom("fallback", "default")]
               /\ catLastSource' = "fallback"
    /\ UNCHANGED <<redactor, cachedData, catNow, catGatewayUrl, catAsked, customTtl, notCat>>

\* the structuring completion settles, lines 236-264: its answer parses and
\* fills the cache, or the completion or JSON.parse throws
StructureSettles(c) ==
    /\ catCalls[c].pc = "structure"
    /\ \E answer \in {"json", "no_json", "completion_error"} :
          IF answer = "json"
          THEN /\ cachedData' = [set |-> TRUE, categories |-> "dynamic", fetchedAt |-> catNow]
               /\ catCalls' = [catCalls EXCEPT ![c] = ReturnedFrom("dynamic", "dynamic")]
               /\ catLastSource' = "dynamic"
          ELSE /\ catCalls' = [catCalls EXCEPT ![c] = ReturnedFrom("fallback", "default")]
               /\ catLastSource' = "fallback"
               /\ UNCHANGED cachedData
    /\ UNCHANGED <<redactor, catNow, catGatewayUrl, catAsked, customTtl, notCat>>

\* the caller takes the result; it may call again
TakeResult(c) ==
    /\ catCalls[c].pc = "returned"
    /\ catCalls' = [catCalls EXCEPT ![c] = NotCalled]
    /\ UNCHANGED <<redactor, cachedData, catNow, catGatewayUrl, catAsked, catLastSource,
                   customTtl, notCat>>


----------------------------------------------------------------------------
(* The graph store adapter: graphContext.ts lines 180-251 and 296-373, and *)
(* the report of analyzeComplianceWithGroq, src/unnamed/part_008 lines     *)
(* 175-208. A query is kept as the operation and the strings interpolated  *)
(* into it; the store answers MERGE and MATCH as Cypher defines them: a    *)
(* node pattern with a label matches the nodes of that label.              *)

\* isValidSpecId, lines 183-186: /^[A-Za-z0-9_-]+$/
isValidSpecId(id) ==
    Len(id) > 0 /\ \A i \in DOMAIN id : id[i] \in Alnum \cup {"_", "-"}

\* /^[A-Z_]+$/, line 239
isValidRelType(type) ==
    Len(type) > 0 /\ \A i \in DOMAIN type : type[i] \in Upper \cup {"_"}

Entity(type, id, title, relationships) ==
    [type |-> type, id |-> id, title |-> title, relationships |-> relationships]

Rfc7231Id == <<"R","F","C","7","2","3","1">>
Rfc9110Id == <<"R","F","C","9","1","1","0">>
\* an id of DEFAULT_OWASP_CATEGORIES
DefaultA03Id == <<"A","0","3",":","2","0","2","1">>

Obsoletes == [type |-> <<"O","B","S","O","L","E","T","E","S">>, targetId |-> Rfc7231Id]

\* the entities the batches are made of: an RFC, a category of the default
\* catalog, a category of a fetched catalog whose completion wrote the id of
\* that RFC, under two titles, and entities with relationships
EntityPool ==
    {Entity("rfc", Rfc7231Id, "RFC 7231", <<>>),
     Entity("owasp", Rfc7231Id, "Injection", <<>>),
     Entity("owasp", Rfc7231Id, "Injection Flaws", <<>>),
     Entity("owasp", DefaultA03Id, "Injection", <<Obsoletes>>),
     Entity("rfc", Rfc9110Id, "RFC 9110",
            <<[type |-> <<"o","b","s","o","l","e","t","e","s">>, targetId |-> Rfc7231Id],
              Obsoletes,
              [type |-> <<"O","B","S","O","L","E","T","E","S">>, targetId |-> DefaultA03Id]>>)}

\* entities in one batch
MaxBatch == 2

Batches == UNION {[1..n -> EntityPool] : n \in 0..MaxBatch}

NodeLabel(type) == IF type = "rfc" THEN "RFC" ELSE "OWASP"

Query(op, ids, relType) == [op |-> op, ids |-> ids, relType |-> relType]

\* MERGE (n:Label {id: '...'}) SET n.title = '...': the nodes of the label
\* with the id get the title, and one is made when there is none
MergeNode(nodes, label, id, title) ==
    IF \E n \in nodes : n.label = label /\ n.id = id
    THEN {IF n.label = label /\ n.id = id THEN [n EXCEPT !.title = title] ELSE n : n \in nodes}
    ELSE nodes \cup {[label |-> label, id |-> id, title |-> title]}

\* MATCH (a {id: '...'}), (b {id: '...'}) MERGE (a)-[:TYPE]->(b)
MergeEdge(store, sourceId, relType, targetId) ==
    store.edges \cup
        {[source |-> <<a.label, a.id>>, relType |-> relType, target |-> <<b.label, b.id>>] :
            <<a, b>> \in {p \in store.nodes \X store.nodes :
                             p[1].id = sourceId /\ p[2].id = targetId}}

LatestPut(latest, spec) ==
    {e \in latest : e.id # spec.id}
        \cup {[id |-> spec.id, type |-> spec.type, title |-> spec.title]}

\* (mutant) an invalid id ends the loop
NextAfterInvalidBreak(specs, k) == Len(specs) + 1

\* continue, line 203
NextAfterInvalid(specs, k) == k + 1

\* the first loop of upsertSpecsToMemgraph, lines 199-227
RECURSIVE NodeLoop(_, _, _)
NodeLoop(specs, k, acc) ==
    IF k > Len(specs) THEN acc
    ELSE IF ~isValidSpecId(specs[k].id)
         THEN NodeLoop(specs, NextAfterInvalid(specs, k), acc)
         ELSE NodeLoop(specs, k + 1,
                  [acc EXCEPT !.queries = Append(@, Query("upsertNode", <<specs[k].id>>, <<>>)),
                              !.store.nodes =
                                  MergeNode(@, NodeLabel(specs[k].type),
                                            specs[k].id, specs[k].title),
                              !.latest = LatestPut(@, specs[k])])

\* the inner loop of the second one, lines 232-247: spec.id goes into the
\* query as it is
RECURSIVE RelLoop(_, _, _, _)
RelLoop(spec, rels, r, acc) ==
    IF r > Len(rels) THEN acc
    ELSE IF ~isValidSpecId(rels[r].targetId) \/ ~isValidRelType(rels[r].type)
         THEN RelLoop(spec, rels, r + 1, acc)
         ELSE RelLoop(spec, rels, r + 1,
                  [acc EXCEPT !.queries =
                                  Append(@, Query("upsertEdge", <<spec.id, rels[r].targetId>>,
                                                  rels[r].type)),
                              !.store.edges =
                                  MergeEdge(acc.store, spec.id, rels[r].type,
                                            rels[r].targetId)])

\* the second loop, lines 230-250
RECURSIVE EdgeLoop(_, _, _)
EdgeLoop(specs, k, acc) ==
    IF k > Len(specs) THEN acc
    ELSE EdgeLoop(specs, k + 1, RelLoop(specs[k], specs[k].relationships, 1, acc))

\* upsertSpecsToMemgraph with a gateway that is configured and answers
\* every query
upsertSpecsToMemgraph(specs, store, latest) ==
    EdgeLoop(specs, 1,
             NodeLoop(specs, 1, [store |-> store, latest |-> latest, queries |-> <<>>]))

\* specs.map(s => `'${s.id}'`), line 313
SpecIds(specs) == [k \in DOMAIN specs |-> specs[k].id]

NoReport == [path |-> "none", cited |-> {}]

GraphOff ==
    /\ gStore = [nodes |-> {}, edges |-> {}]
    /\ gBatch = <<>>
    /\ gQueries = <<>>
    /\ gLatest = {}
    /\ gReport = NoReport
    /\ gStatus = "off"

\* the store starts empty
GraphStart ==
    /\ gStore = [nodes |-> {}, edges |-> {}]
    /\ gBatch = <<>>
    /\ gQueries = <<>>
    /\ gLatest = {}
    /\ gReport = NoReport
    /\ gStatus = "idle"

\* discoverAndUpsertSpecs and extractAndUpsertSpecsFromText, lines 256-291:
\* the entities of a text are upserted. A query the gateway fails on ends
\* the operation with the error; those runs are part of SpecRun.
UpsertSpecs ==
    /\ gStatus # "off"
    /\ \E specs \in Batches :
          \E done \in {upsertSpecsToMemgraph(specs, gStore, gLatest)} :
             /\ gBatch' = specs
             /\ gStore' = done.store
             /\ gLatest' = done.latest
             /\ gQueries' = done.queries
    /\ gStatus' = "upserted"
    /\ gReport' = NoReport
    /\ UNCHANGED <<redactor, notGraph>>

\* fetchGraphContextForFindings(specs) after the upsert, lines 299-372: two
\* reads with the ids of the entities, and none for no entity; a read that
\* fails is caught
FetchGraphContext ==
    /\ gStatus = "upserted"
    /\ gQueries' = IF gBatch = <<>> THEN <<>>
                   ELSE <<Query("nodesByIds", SpecIds(gBatch), <<>>),
                          Query("edgesIncident", SpecIds(gBatch), <<>>)>>
    /\ gStatus' = "read"
    /\ UNCHANGED <<redactor, gStore, gBatch, gLatest, gReport, notGraph>>

\* the ids a completion may cite in a report that parses
CitableIds == {Rfc7231Id, DefaultA03Id}

\* analyzeComplianceWithGroq, part_008 lines 181-208: the report of the
\* completion when it parses, else one that cites the ids of the entities
AnalyzeCompliance ==
    /\ gStatus = "read"
    /\ \/ \E cited \in SUBSET CitableIds :
             gReport' = [path |-> "parsed", cited |-> cited]
       \/ gReport' = [path |-> "fallback",
                      cited |-> {gBatch[k].id : k \in DOMAIN gBatch}]
    /\ gStatus' = "reported"
    /\ UNCHANGED <<redactor, gStore, gBatch, gQueries, gLatest, notGraph>>


----------------------------------------------------------------------------
(* The run orchestrator: runAuditOnSampleApi, auditEngine.ts lines 15-63.  *)
(* The function is one chain of awaits; an action is the settling of the   *)
(* awaited call together with the synchronous code up to the next await.   *)
(* The outcome of every outside call (E2B, the gateway, the completion     *)
(* service) is chosen freely: it answers or it fails.                      *)

\* runs started in one behaviour
MaxRuns == 3

NoError == [name |-> "none", state |-> "none"]

\* what the callees throw: new Error(...) at mcpClient.ts 126-175,
\* e2bClient.ts 274, part_008 58, graphContext.ts 195 and 309. The object
\* has the name "Error" and no field for a state.
PlainError == [name |-> "Error", state |-> "none"]

\* getMcpCredentials, e2bClient.ts 74, called by createSandbox
SandboxError == [name |-> "SandboxError", state |-> "none"]

NoPending == [kind |-> "none", report |-> "none", error |-> NoError]

\* line 34 and lines 38-41: after the probe has settled the exchanges are
\* sanitized synchronously and discoverAndUpsertSpecs is called
AfterProbeUnsanitized == <<"DiscoverSpecs">>

AfterProbe == <<"Sanitize", "DiscoverSpecs">>

\* the next await begins
Begin(states) ==
    /\ runPc' = states[Len(states)]
    /\ runLog' = runLog \o states

\* an awaited call inside the try block rejects: the exception leaves the
\* block and finally awaits closeSandbox, lines 58-62
Throw(error) ==
    /\ runPc' = "closeSandbox"
    /\ runPending' = [kind |-> "error", report |-> "none", error |-> error]
    /\ runFailures' = runFailures \cup {runPc}
    /\ UNCHANGED <<runLog, runReport, runError, runContext, runExchanges, runResults>>

RunOff ==
    /\ runPc = "off"
    /\ runLog = <<>>
    /\ runPending = NoPending
    /\ runReport = "none"
    /\ runError = NoError
    /\ runFailures = {}
    /\ runContext = "none"
    /\ runExchanges = <<>>
    /\ runResults = <<>>

RunStart ==
    /\ runPc = "idle"
    /\ runLog = <<>>
    /\ runPending = NoPending
    /\ runReport = "none"
    /\ runError = NoError
    /\ runFailures = {}
    /\ runContext = "none"
    /\ runExchanges = <<>>
    /\ runResults = <<>>

\* line 15-20: the call of runAuditOnSampleApi up to await createSandbox()
StartRun ==
    /\ runPc \in {"idle", "Complete", "Failed"}
    /\ Len(runResults) + (IF runPc = "idle" THEN 0 ELSE 1) < MaxRuns
    /\ runResults' = IF runPc = "idle" THEN runResults ELSE Append(runResults, runPc)
    /\ runPc' = "CreateSession"
    /\ runLog' = <<"CreateSession">>
    /\ runPending' = NoPending
    /\ runReport' = "none"
    /\ runError' = NoError
    /\ runFailures' = {}
    /\ runContext' = "none"
    /\ runExchanges' = <<>>
    /\ UNCHANGED <<redactor, notRun>>

\* line 20: createSandbox is awaited before the try block, so its
\* rejection reaches the caller with no closeSandbox
CreateSessionSettles ==
    /\ runPc = "CreateSession"
    /\ \/ /\ Begin(<<"StartFixture">>)
          /\ UNCHANGED <<runPending, runReport, runError, runFailures, runContext,
                         runExchanges, runResults>>
       \/ /\ runPc' = "Failed"
          /\ runError' \in {PlainError, SandboxError}
          /\ runFailures' = runFailures \cup {runPc}
          /\ UNCHANGED <<runLog, runPending, runReport, runContext, runExchanges,
                         runResults>>
    /\ UNCHANGED <<redactor, notRun>>

\* line 25: await runSampleApiInSandbox(sandbox)
StartFixtureSettles ==
    /\ runPc = "StartFixture"
    /\ \/ /\ Begin(<<"Probe">>)
          /\ UNCHANGED <<runPending, runReport, runError, runFailures, runContext,
                         runExchanges, runResults>>
       \/ Throw(PlainError)
    /\ UNCHANGED <<redactor, notRun>>

\* the endpoints of the probe, auditEngine.ts lines 135-141
ENDPOINTS ==
    <<"/health-perfect", "/user-leaky", "/debug-error", "/items-injection",
      "/cors-wildcard">>

\* what probeSampleApi resolves with, auditEngine.ts lines 216-217 and
\* e2bClient.ts 277-290: an exchange per endpoint (a request that fails is
\* caught inside the script and recorded with status 0), or the empty list
\* when the execution gave no result and runInSandbox returned undefined
ProbeResults == {ENDPOINTS, <<>>}

\* sanitizeHttpExchanges calls raw.map, sanitizeHttp.ts line 127
TypeError == [name |-> "TypeError", state |-> "none"]

\* lines 29-41: await probeSampleApi(sandbox). The call rejects when
\* runInSandbox does, e2bClient.ts 272-275; when the result of the script
\* is text that is no JSON, runInSandbox returns the text (line 285) and
\* sanitizeHttpExchanges throws on it.
ProbeSettles ==
    /\ runPc = "Probe"
    /\ \/ /\ runExchanges' \in ProbeResults
          /\ Begin(AfterProbe)
          /\ UNCHANGED <<runPending, runReport, runError, runFailures, runContext,
                         runResults>>
       \/ /\ runLog' = runLog \o <<"Sanitize">>
          /\ runPc' = "closeSandbox"
          /\ runPending' = [kind |-> "error", report |-> "none", error |-> TypeError]
          /\ UNCHANGED <<runReport, runError, runFailures, runContext, runExchanges,
                         runResults>>
       \/ Throw(PlainError)
    /\ UNCHANGED <<redactor, notRun>>

\* lines 41-46: await discoverAndUpsertSpecs; callPerplexityMcp and
\* callMemgraphMcp rethrow a failure of the gateway
DiscoverSpecsSettles ==
    /\ runPc = "DiscoverSpecs"
    /\ \/ /\ Begin(<<"FetchGraphContext">>)
          /\ UNCHANGED <<runPending, runReport, runError, runFailures, runContext,
                         runExchanges, runResults>>
       \/ Throw(PlainError)
    /\ UNCHANGED <<redactor, notRun>>

\* lines 46-53 and graphContext.ts 299-372: both reads of the store are
\* inside try/catch blocks with an empty handler (323-341, 350-368), so a
\* failure of the gateway gives an empty context and the run goes on. The
\* call rejects only when no gateway is configured (line 309).
FetchGraphContextSettles ==
    /\ runPc = "FetchGraphContext"
    /\ \/ /\ Begin(<<"Analyze">>)
          /\ \/ /\ runContext' = "full"
                /\ UNCHANGED runFailures
             \/ /\ runContext' = "empty"
                /\ runFailures' = runFailures \cup {runPc}
          /\ UNCHANGED runExchanges
          /\ UNCHANGED <<runPending, runReport, runError, runResults>>
       \/ Throw(PlainError)
    /\ UNCHANGED <<redactor, notRun>>

\* lines 50-57 and part_008 118-209: the completion answers with JSON,
\* answers with text that does not parse (the fallback report of lines
\* 197-207), or the request fails (part_008 58)
AnalyzeSettles ==
    /\ runPc = "Analyze"
    /\ \/ /\ runPc' = "closeSandbox"
          /\ \E kind \in {"parsed", "fallback"} :
                 runPending' = [kind |-> "report", report |-> kind, error |-> NoError]
          /\ UNCHANGED <<runLog, runReport, runError, runFailures, runContext,
                         runExchanges, runResults>>
       \/ Throw(PlainError)
    /\ UNCHANGED <<redactor, notRun>>

\* lines 58-62 and e2bClient.ts 295-297: finally awaits closeSandbox. When
\* it resolves the caller gets what the try block ended with; when it
\* rejects its error replaces the report or the earlier error.
CloseSandboxSettles ==
    /\ runPc = "closeSandbox"
    /\ \/ /\ runPending.kind = "report"
          /\ runPc' = "Complete"
          /\ runReport' = runPending.report
          /\ UNCHANGED runError
       \/ /\ runPending.kind = "error"
          /\ runPc' = "Failed"
          /\ runError' = runPending.error
          /\ UNCHANGED runReport
       \/ /\ runPc' = "Failed"
          /\ runError' = PlainError
          /\ UNCHANGED runReport
    /\ runPending' = NoPending
    /\ UNCHANGED <<runLog, runFailures, runContext, runExchanges, runResults>>
    /\ UNCHANGED <<redactor, notRun>>


----------------------------------------------------------------------------
(* The session manager: sandboxManager, src/unnamed/part_006, with the     *)
(* callers of the orchestrator (auditEngine.ts lines 15-63) and of the     *)
(* follow-up turn (route.ts lines 238-245, graphContext.ts 191-196). Two   *)
(* requests are served by one event loop: an action is the code a caller   *)
(* runs between two awaits.                                                *)

\* sandboxes created in one behaviour
MaxSandboxes == 2
\* calls of runSampleApiInSandbox for one sandbox
MaxStarts == 2

Callers == {1, 2}

NoSandbox == 0

Idle == [op |-> "none", pc |-> "idle", sb |-> NoSandbox, own |-> NoSandbox]

\* the functions of sandboxManager that await getOrCreateActiveSandbox, and
\* getOrCreateActiveSandbox itself
SessionUsers ==
    {"getOrCreateActiveSandbox", "ensureMcpGatewayConfigured", "ensureSampleApiRunning"}

\* mcpClient: the gateway is configured when a URL is set
isMcpGatewayConfigured(url) == url # NoSandbox

\* part_006 lines 15-19
configureGatewayFromSandbox(url, sandbox) ==
    IF ~isMcpGatewayConfigured(url) THEN sandbox ELSE url

\* part_006 line 40, activeSandbox = sandbox
Assigned(active, sandbox) == sandbox

At(c, pc) == callers[c].pc = pc

Goto(c, pc) == callers' = [callers EXCEPT ![c].pc = pc]

Return(c) == callers' = [callers EXCEPT ![c] = Idle]

\* a call begins: it overlaps when the other caller is inside a call
Begins(c, op) ==
    sesHistory' = [reset |-> sesHistory.reset \/ op = "resetActiveSandbox",
                   run |-> sesHistory.run \/ op = "runAuditOnSampleApi",
                   overlap |-> sesHistory.overlap
                                \/ \E d \in Callers \ {c} : callers[d].pc # "idle"]

\* part_006 lines 33-38: the check of getOrCreateActiveSandbox, up to the
\* first await
EnterGetOrCreateGuarded(c, op, own) ==
    IF activeSandbox # NoSandbox \/ \E d \in Callers : callers[d].pc = "creating"
    THEN callers' = [callers EXCEPT ![c] =
             [op |-> op, pc |-> "got", sb |-> activeSandbox, own |-> own]]
    ELSE callers' = [callers EXCEPT ![c] =
             [op |-> op, pc |-> "creating", sb |-> NoSandbox, own |-> own]]

EnterGetOrCreate(c, op, own) ==
    IF activeSandbox # NoSandbox
    THEN callers' = [callers EXCEPT ![c] =
             [op |-> op, pc |-> "got", sb |-> activeSandbox, own |-> own]]
    ELSE callers' = [callers EXCEPT ![c] =
             [op |-> op, pc |-> "creating", sb |-> NoSandbox, own |-> own]]

SesOff ==
    /\ activeSandbox = NoSandbox
    /\ mcpGatewayUrl = NoSandbox
    /\ startedSampleApis = {}
    /\ sbCreated = 0
    /\ sbKilled = {}
    /\ apiStarts = <<>>
    /\ callers = <<>>
    /\ sesHistory = [reset |-> FALSE, run |-> FALSE, overlap |-> FALSE]

\* part_006 lines 4-5, mcpClient.ts lines 10-11
SesStart ==
    /\ activeSandbox = NoSandbox
    /\ mcpGatewayUrl = NoSandbox
    /\ startedSampleApis = {}
    /\ sbCreated = 0
    /\ sbKilled = {}
    /\ apiStarts = [id \in 1..MaxSandboxes |-> 0]
    /\ callers = [c \in Callers |-> Idle]
    /\ sesHistory = [reset |-> FALSE, run |-> FALSE, overlap |-> FALSE]

\* a request calls getOrCreateActiveSandbox (33-38), ensureSampleApiRunning
\* (48-49) or ensureMcpGatewayConfigured (21-26), which returns at once
\* when the gateway is configured
CallSession(c, op) ==
    /\ At(c, "idle")
    /\ op = "ensureMcpGatewayConfigured" => ~isMcpGatewayConfigured(mcpGatewayUrl)
    /\ EnterGetOrCreate(c, op, NoSandbox)
    /\ Begins(c, op)
    /\ UNCHANGED <<activeSandbox, mcpGatewayUrl, startedSampleApis, sbCreated,
                   sbKilled, apiStarts>>
    /\ UNCHANGED <<redactor, notSes>>

\* part_006 lines 38-39: createSandbox settles; when it resolves,
\* configureGatewayFromSandbox runs up to its return and is awaited
CreateSandboxSettles(c) ==
    /\ At(c, "creating")
    /\ \/ /\ sbCreated < MaxSandboxes
          /\ sbCreated' = sbCreated + 1
          /\ mcpGatewayUrl' = configureGatewayFromSandbox(mcpGatewayUrl, sbCreated + 1)
          /\ callers' = [callers EXCEPT ![c].pc = "configured", ![c].sb = sbCreated + 1]
       \/ /\ IF callers[c].own = NoSandbox THEN Return(c) ELSE Goto(c, "closing")
          /\ UNCHANGED <<sbCreated, mcpGatewayUrl>>
    /\ UNCHANGED <<activeSandbox, startedSampleApis, sbKilled, apiStarts, sesHistory>>
    /\ UNCHANGED <<redactor, notSes>>

\* part_006 lines 40-41
AssignActiveSandbox(c) ==
    /\ At(c, "configured")
    /\ activeSandbox' = Assigned(activeSandbox, callers[c].sb)
    /\ Goto(c, "got")
    /\ UNCHANGED <<mcpGatewayUrl, startedSampleApis, sbCreated, sbKilled, apiStarts,
                   sesHistory>>
    /\ UNCHANGED <<redactor, notSes>>

\* the code after await getOrCreateActiveSandbox(): nothing for a direct
\* caller; line 27 for ensureMcpGatewayConfigured, also when it was called
\* by the run (graphContext.ts 192); lines 51-52 for ensureSampleApiRunning
AfterGetOrCreate(c) ==
    /\ At(c, "got")
    /\ \/ /\ callers[c].op = "getOrCreateActiveSandbox"
          /\ Return(c)
          /\ UNCHANGED <<mcpGatewayUrl, apiStarts>>
       \/ /\ callers[c].op = "ensureMcpGatewayConfigured"
          /\ mcpGatewayUrl' = callers[c].sb
          /\ Return(c)
          /\ UNCHANGED apiStarts
       \/ /\ callers[c].op = "runAuditOnSampleApi"
          /\ mcpGatewayUrl' = callers[c].sb
          /\ Goto(c, "running")
          /\ UNCHANGED apiStarts
       \/ /\ callers[c].op = "ensureSampleApiRunning"
          /\ IF callers[c].sb \in startedSampleApis
             THEN Return(c) /\ UNCHANGED apiStarts
             ELSE /\ apiStarts[callers[c].sb] < MaxStarts
                  /\ apiStarts' = [apiStarts EXCEPT ![callers[c].sb] = @ + 1]
                  /\ Goto(c, "starting")
          /\ UNCHANGED mcpGatewayUrl
    /\ UNCHANGED <<activeSandbox, startedSampleApis, sbCreated, sbKilled, sesHistory>>
    /\ UNCHANGED <<redactor, notSes>>

\* part_006 lines 52-56: runSampleApiInSandbox settles
StartSampleApiSettles(c) ==
    /\ At(c, "starting")
    /\ \/ startedSampleApis' = startedSampleApis \cup {callers[c].sb}
       \/ UNCHANGED startedSampleApis
    /\ Return(c)
    /\ UNCHANGED <<activeSandbox, mcpGatewayUrl, sbCreated, sbKilled, apiStarts,
                   sesHistory>>
    /\ UNCHANGED <<redactor, notSes>>

\* part_006 lines 63-67: resetActiveSandbox up to await kill()
CallReset(c) ==
    /\ At(c, "idle")
    /\ activeSandbox # NoSandbox
    /\ callers' = [callers EXCEPT ![c] =
           [op |-> "resetActiveSandbox", pc |-> "killing", sb |-> activeSandbox,
            own |-> NoSandbox]]
    /\ Begins(c, "resetActiveSandbox")
    /\ UNCHANGED <<activeSandbox, mcpGatewayUrl, startedSampleApis, sbCreated,
                   sbKilled, apiStarts>>
    /\ UNCHANGED <<redactor, notSes>>

\* part_006 lines 67-71: kill settles, finally clears the handle and the set
KillSettles(c) ==
    /\ At(c, "killing")
    /\ \/ sbKilled' = sbKilled \cup {callers[c].sb}
       \/ UNCHANGED sbKilled
    /\ activeSandbox' = NoSandbox
    /\ startedSampleApis' = {}
    /\ Return(c)
    /\ UNCHANGED <<mcpGatewayUrl, sbCreated, apiStarts, sesHistory>>
    /\ UNCHANGED <<redactor, notSes>>

\* auditEngine.ts lines 15-20: a run begins with await createSandbox()
CallRun(c) ==
    /\ At(c, "idle")
    /\ callers' = [callers EXCEPT ![c] =
           [op |-> "runAuditOnSampleApi", pc |-> "runCreating", sb |-> NoSandbox,
            own |-> NoSandbox]]
    /\ Begins(c, "runAuditOnSampleApi")
    /\ UNCHANGED <<activeSandbox, mcpGatewayUrl, startedSampleApis, sbCreated,
                   sbKilled, apiStarts>>
    /\ UNCHANGED <<redactor, notSes>>

\* auditEngine.ts lines 20-41: the sandbox of the run is created, and the
\* fixture and the probe settle
RunSandboxSettles(c) ==
    /\ At(c, "runCreating")
    /\ \/ /\ sbCreated < MaxSandboxes
          /\ sbCreated' = sbCreated + 1
          /\ callers' = [callers EXCEPT ![c].pc = "discovering", ![c].own = sbCreated + 1]
       \/ /\ Return(c)
          /\ UNCHANGED sbCreated
    /\ UNCHANGED <<activeSandbox, mcpGatewayUrl, startedSampleApis, sbKilled, apiStarts,
                   sesHistory>>
    /\ UNCHANGED <<redactor, notSes>>

\* auditEngine.ts lines 41-46 and graphContext.ts 191-196: the research call
\* settles and upsertSpecsToMemgraph awaits ensureMcpGatewayConfigured
RunEnsuresGateway(c) ==
    /\ At(c, "discovering")
    /\ \/ IF isMcpGatewayConfigured(mcpGatewayUrl)
          THEN Goto(c, "running")
          ELSE EnterGetOrCreate(c, "runAuditOnSampleApi", callers[c].own)
       \/ Goto(c, "closing")
    /\ UNCHANGED <<activeSandbox, mcpGatewayUrl, startedSampleApis, sbCreated, sbKilled,
                   apiStarts, sesHistory>>
    /\ UNCHANGED <<redactor, notSes>>

\* auditEngine.ts lines 46-58: the rest of the try block settles, with a
\* report or with an error
RunBodySettles(c) ==
    /\ At(c, "running")
    /\ Goto(c, "closing")
    /\ UNCHANGED <<activeSandbox, mcpGatewayUrl, startedSampleApis, sbCreated, sbKilled,
                   apiStarts, sesHistory>>
    /\ UNCHANGED <<redactor, notSes>>

\* auditEngine.ts lines 58-62 and e2bClient.ts 295-297: finally kills the
\* sandbox of the run
RunCloseSettles(c) ==
    /\ At(c, "closing")
    /\ \/ sbKilled' = sbKilled \cup {callers[c].own}
       \/ UNCHANGED sbKilled
    /\ Return(c)
    /\ UNCHANGED <<activeSandbox, mcpGatewayUrl, startedSampleApis, sbCreated, apiStarts,
                   sesHistory>>
    /\ UNCHANGED <<redactor, notSes>>


----------------------------------------------------------------------------
(* The analysis: analyzeComplianceWithGroq, src/unnamed/part_008 lines     *)
(* 118-209. A completion is kept as its content (a string that names the   *)
(* whole text) with the text of its first fenced block, when it has one.   *)
(* An object is a function from field names to values; <fence> stands for   *)
(* the three backquotes that open and close a fenced block.                *)

NoFence == "none"

Completion(content, fenced) == [content |-> content, fenced |-> fenced]

\* a report in the format the prompt asks for, lines 154-174
ReportJson ==
    [summary |-> "Brief overall assessment",
     overallHealth |-> "healthy",
     endpoints |-> <<[endpoint |-> "/users", method |-> "GET", status |-> "warning"]>>,
     rfcsCited |-> <<Rfc7231Id>>,
     owaspCited |-> <<>>]

\* JSON.parse of the texts below, line 190: the value, or that it throws
JSONparse(text) ==
    CASE text = "{summary, overallHealth, endpoints, rfcsCited, owaspCited}" ->
             [throws |-> FALSE, type |-> "object", value |-> ReportJson]
      [] text = "{}" -> [throws |-> FALSE, type |-> "object", value |-> <<>>]
      [] text = "{error: rate limited}" ->
             [throws |-> FALSE, type |-> "object",
              value |-> [error |-> "rate limited"]]
      [] text = "{summary: All endpoints look fine}" ->
             [throws |-> FALSE, type |-> "object",
              value |-> [summary |-> "All endpoints look fine"]]
      [] text = "null" -> [throws |-> FALSE, type |-> "null", value |-> <<>>]
      [] text = "42" -> [throws |-> FALSE, type |-> "number", value |-> <<>>]
      [] text = "[]" -> [throws |-> FALSE, type |-> "array", value |-> <<>>]
      [] OTHER -> [throws |-> TRUE, type |-> "none", value |-> <<>>]

\* what the completion service may answer
Completions ==
    {Completion("{summary, overallHealth, endpoints, rfcsCited, owaspCited}", NoFence),
     Completion("Here is the report: <fence>json ... <fence>",
                "{summary, overallHealth, endpoints, rfcsCited, owaspCited}"),
     Completion("The API has three problems: ...", NoFence),
     Completion("I found issues. <fence>GET /users<fence> returns too much.", "GET /users"),
     Completion("{}", NoFence),
     Completion("{error: rate limited}", NoFence),
     Completion("Sure! <fence>json {summary: ...} <fence> Anything else?",
                "{summary: All endpoints look fine}"),
     Completion("null", NoFence),
     Completion("42", NoFence),
     Completion("[]", NoFence)}

\* lines 183-188: the first fenced block when there is one, else the content
jsonStr(completion) ==
    IF completion.fenced # NoFence THEN completion.fenced ELSE completion.content

\* {...report}: the own enumerable properties of the parsed value; null, a
\* number and an empty array have none
Spread(parsed) == IF parsed.type = "object" THEN parsed.value ELSE <<>>

Timestamp == "now"

idsOfType(specs, type) ==
    SelectSeq([k \in DOMAIN specs |-> IF specs[k].type = type THEN specs[k].id ELSE <<>>],
              LAMBDA id : id # <<>>)

\* lines 197-207
BasicReport(completion, specs, graphContext) ==
    [summary |-> completion.content,
     overallHealth |-> "degraded",
     endpoints |-> <<>>,
     rfcsCited |-> idsOfType(specs, "rfc"),
     owaspCited |-> idsOfType(specs, "owasp"),
     graphContext |-> graphContext,
     timestamp |-> Timestamp]

\* lines 181-208
ParseReport(completion, specs, graphContext) ==
    LET parsed == JSONparse(jsonStr(completion))
    IN  IF parsed.throws
        THEN BasicReport(completion, specs, graphContext)
        ELSE [graphContext |-> graphContext, timestamp |-> Timestamp] @@ Spread(parsed)

NoContext == [nodes |-> {}, edges |-> {}]

AnalysisInputs ==
    [completion : Completions,
     specs : {<<>>,
              <<Entity("rfc", Rfc7231Id, "RFC 7231", <<>>)>>,
              <<Entity("rfc", Rfc7231Id, "RFC 7231", <<>>),
                Entity("owasp", DefaultA03Id, "Injection", <<>>)>>},
     graphContext : {NoContext, [nodes |-> {Rfc7231Id}, edges |-> {}]}]

AnOff ==
    /\ anCompletion = Completion("", NoFence)
    /\ anSpecs = <<>>
    /\ anGraphContext = NoContext
    /\ anReport = <<>>
    /\ anPc = "off"

\* the call of analyzeComplianceWithGroq, at await groqChat (line 176)
AnStart ==
    \E in \in AnalysisInputs :
        /\ anCompletion = in.completion
        /\ anSpecs = in.specs
        /\ anGraphContext = in.graphContext
        /\ anReport = <<>>
        /\ anPc = "called"

\* lines 176-208: the completion arrives and is parsed
AnalysisReturns ==
    /\ anPc = "called"
    /\ anReport' = ParseReport(anCompletion, anSpecs, anGraphContext)
    /\ anPc' = "returned"
    /\ UNCHANGED <<anCompletion, anSpecs, anGraphContext>>
    /\ UNCHANGED <<redactor, notAn>>

\* line 176 and part_008 58: groqChat rejects
AnalysisThrows ==
    /\ anPc = "called"
    /\ anPc' = "threw"
    /\ UNCHANGED <<anCompletion, anSpecs, anGraphContext, anReport>>
    /\ UNCHANGED <<redactor, notAn>>


----------------------------------------------------------------------------
(* The chat handler: POST of app/api/chat/route.ts, lines 15-16 and        *)
(* 34-261. RequestIds are served by one event loop; an action is the code a  *)
(* request runs between two awaits. The graph context of a report is kept  *)
(* as the request whose run built it and the nodes it holds.               *)

\* requests in one behaviour
MaxRequests == 3

RequestIds == 1..MaxRequests

\* line 16: let lastGraphContext: GraphContext | undefined
NoGraphContext == [run |-> 0, nodes |-> {}]

GraphContextOf(r, nodes) == [run |-> r, nodes |-> nodes]

NoResponse == [status |-> 0, prefix |-> "", message |-> <<>>, context |-> NoGraphContext]

NewRequest ==
    [kind |-> "none", pc |-> "new", prompt |-> NoGraphContext, thrown |-> <<>>,
     response |-> NoResponse]

\* the messages of the errors the callees throw: 'Groq API error: 401 -
\* <body>' (part_008 58), response.error of the gateway (mcpClient.ts 135),
\* which may repeat what was sent
ErrorMessages == {<<"f","a","i","l">>, <<"a","@","b",".","c","o">>}

\* lines 97, 217 and 252: error instanceof Error ? error.message : 'Unknown error'
errorMessageSanitized(thrown) ==
    IF thrown = <<>> THEN <<"U","n","k","n","o","w","n"," ","e","r","r","o","r">> ELSE sanitizeTextForEgress(thrown)

errorMessage(thrown) ==
    IF thrown = <<>> THEN <<"U","n","k","n","o","w","n"," ","e","r","r","o","r">> ELSE thrown

\* lines 98, 218 and 254
ErrorResponse(prefix, thrown) ==
    [status |-> 500, prefix |-> prefix, message |-> errorMessage(thrown),
     context |-> NoGraphContext]

\* line 72: lastGraphContext = report.graphContext
StoredKeepFirst(last, context) == IF last = NoGraphContext THEN context ELSE last

Stored(last, context) == context

\* lines 223-229: the graph summary is added when the context has nodes
PromptContext(last) == IF last.nodes # {} THEN last ELSE NoGraphContext

HOff ==
    /\ lastGraphContext = NoGraphContext
    /\ requests = <<>>

HStart ==
    /\ lastGraphContext = NoGraphContext
    /\ requests = [r \in RequestIds |-> NewRequest]

\* lines 34-69, 107-128 and 222-232: a request arrives and runs up to its
\* await: of runAuditOnSampleApi, of the graph query, or of streamText with
\* the system prompt built from lastGraphContext
Post(r, kind) ==
    /\ requests[r].kind = "none"
    /\ \A q \in 1..(r - 1) : requests[q].kind # "none"
    /\ requests' = [requests EXCEPT ![r] =
           [kind |-> kind, pc |-> "awaiting",
            prompt |-> IF kind = "chat" THEN PromptContext(lastGraphContext)
                       ELSE NoGraphContext,
            thrown |-> <<>>, response |-> NoResponse]]
    /\ UNCHANGED lastGraphContext
    /\ UNCHANGED <<redactor, notH>>

\* lines 69-94: the run returns its report
AuditReturns(r) ==
    /\ requests[r].kind = "audit" /\ requests[r].pc = "awaiting"
    /\ \E nodes \in {{}, {Rfc7231Id}} :
           /\ lastGraphContext' = Stored(lastGraphContext, GraphContextOf(r, nodes))
           /\ requests' = [requests EXCEPT ![r].pc = "done", ![r].response =
                  [status |-> 200, prefix |-> "", message |-> <<>>,
                   context |-> GraphContextOf(r, nodes)]]
    /\ UNCHANGED <<redactor, notH>>

\* lines 95-104, 215-219 and 250-259: the awaited call rejects, with an
\* Error or with a value that is no Error
Rejects(r) ==
    /\ requests[r].pc = "awaiting"
    /\ \E thrown \in ErrorMessages \cup {<<>>} :
           requests' = [requests EXCEPT ![r].pc = "done", ![r].thrown = thrown,
               ![r].response =
                   ErrorResponse(CASE requests[r].kind = "audit" -> "Error running audit: "
                                   [] requests[r].kind = "graph" -> "Error querying graph: "
                                   [] OTHER -> "Error: ",
                                 thrown)]
    /\ UNCHANGED lastGraphContext
    /\ UNCHANGED <<redactor, notH>>

\* lines 201-214 and 232-249: the graph query or the completion answers
Answers(r) ==
    /\ requests[r].kind \in {"graph", "chat"} /\ requests[r].pc = "awaiting"
    /\ requests' = [requests EXCEPT ![r].pc = "done", ![r].response =
           [status |-> 200, prefix |-> "", message |-> <<>>, context |-> NoGraphContext]]
    /\ UNCHANGED lastGraphContext
    /\ UNCHANGED <<redactor, notH>>

----------------------------------------------------------------------------
(* Specifications: one per component, the other components parked          *)

\* every component but the named one is parked
Parked(on) ==
    /\ on = "text" \/ TextOff
    /\ on = "object" \/ ObjOff
    /\ on = "walk" \/ WalkOff
    /\ on = "http" \/ HttpOff
    /\ on = "aspects" \/ AspOff
    /\ on = "gateway" \/ GwOff
    /\ on = "fallback" \/ FbOff
    /\ on = "chat" \/ ChatOff
    /\ on = "extract" \/ ExOff
    /\ on = "catalog" \/ CatOff
    /\ on = "graph" \/ GraphOff
    /\ on = "run" \/ RunOff
    /\ on = "session" \/ SesOff
    /\ on = "analysis" \/ AnOff
    /\ on = "handler" \/ HOff

TextInit == redactor \in Redactors /\ TextStart /\ Parked("text")

NextText == SanitizeText \/ ApplyPatternsAgain

SpecText == TextInit /\ [][NextText]_vars

ObjInit == redactor \in Redactors /\ ObjStart /\ Parked("object")

NextObject == SanitizeObject

SpecObject == ObjInit /\ [][NextObject]_vars

WalkInit == redactor = "finds_nothing" /\ WalkStart /\ Parked("walk")

NextWalk == WalkCall \/ WalkReturn \/ WalkOverflow

SpecWalk == WalkInit /\ [][NextWalk]_vars

HttpInit == redactor \in Redactors /\ HttpStart /\ Parked("http")

NextHttp == SanitizeHttpExchange

SpecHttp == HttpInit /\ [][NextHttp]_vars

AspInit == redactor = "finds_nothing" /\ AspStart /\ Parked("aspects")

NextAspects == ApplyAspects \/ CallComposed

SpecAspects == AspInit /\ [][NextAspects]_vars

Init == redactor = "finds_nothing" /\ GwStart /\ Parked("gateway")

Next ==
    \/ ConfigureMcpGateway
    \/ CallPerplexityMcp
    \/ CallMemgraphMcp
    \/ GetMemgraphSchema
    \/ QueryMemgraphLocal

Spec == Init /\ [][Next]_vars

FbInit == redactor = "finds_nothing" /\ FbStart /\ Parked("fallback")

NextFallback ==
    \/ ConfigureGatewayToken
    \/ StartCallPerplexity
    \/ TryCandidate
    \/ ThrowLastError

SpecFallback == FbInit /\ [][NextFallback]_vars

ChatInit == redactor \in Redactors /\ ChatStart /\ Parked("chat")

NextChat == GroqChat \/ PostChat

SpecChat == ChatInit /\ [][NextChat]_vars

ExInit == redactor = "finds_nothing" /\ ExStart /\ Parked("extract")

NextExtract == ExtractSpecs

SpecExtract == ExInit /\ [][NextExtract]_vars

CatInit == redactor = "finds_nothing" /\ CatStart /\ Parked("catalog")

NextCatalog ==
    \/ Tick
    \/ SetOwaspCacheTtl
    \/ \E c \in FetchCalls : StartFetch(c)
    \/ \E c \in FetchCalls : ResearchSettles(c)
    \/ \E c \in FetchCalls : StructureSettles(c)
    \/ \E c \in FetchCalls : TakeResult(c)

SpecCatalog == CatInit /\ [][NextCatalog]_vars

GraphInit == redactor = "finds_nothing" /\ GraphStart /\ Parked("graph")

NextGraph == UpsertSpecs \/ FetchGraphContext \/ AnalyzeCompliance

SpecGraph == GraphInit /\ [][NextGraph]_vars


RunInit == redactor = "finds_nothing" /\ RunStart /\ Parked("run")

\* the settling of the awaited calls
RunSettles ==
    \/ CreateSessionSettles
    \/ StartFixtureSettles
    \/ ProbeSettles
    \/ DiscoverSpecsSettles
    \/ FetchGraphContextSettles
    \/ AnalyzeSettles
    \/ CloseSandboxSettles

NextRun == StartRun \/ RunSettles

SpecRun == RunInit /\ [][NextRun]_vars

\* every awaited call settles: the promise of an outside call resolves or
\* rejects, and the event loop then resumes the function
SpecRunFair == SpecRun /\ WF_vars(RunSettles)


SesInit == redactor = "finds_nothing" /\ SesStart /\ Parked("session")

NextSession ==
    \E c \in Callers :
        \/ \E op \in SessionUsers : CallSession(c, op)
        \/ CreateSandboxSettles(c)
        \/ AssignActiveSandbox(c)
        \/ AfterGetOrCreate(c)
        \/ StartSampleApiSettles(c)
        \/ CallReset(c)
        \/ KillSettles(c)
        \/ CallRun(c)
        \/ RunSandboxSettles(c)
        \/ RunEnsuresGateway(c)
        \/ RunBodySettles(c)
        \/ RunCloseSettles(c)

SpecSession == SesInit /\ [][NextSession]_vars


AnInit == redactor = "finds_nothing" /\ AnStart /\ Parked("analysis")

NextAnalysis == AnalysisReturns \/ AnalysisThrows

SpecAnalysis == AnInit /\ [][NextAnalysis]_vars


HInit == redactor \in {"finds_nothing", "masks_first_word"} /\ HStart /\ Parked("handler")

NextHandler ==
    \E r \in RequestIds :
        \/ \E kind \in {"audit", "graph", "chat"} : Post(r, kind)
        \/ AuditReturns(r)
        \/ Rejects(r)
        \/ Answers(r)

SpecHandler == HInit /\ [][NextHandler]_vars

----------------------------------------------------------------------------
(* Properties of the text sanitizer                                        *)

Contains(s, sub) ==
    \E i \in 1..(Len(s) - Len(sub) + 1) : SubSeq(s, i, i + Len(sub) - 1) = sub

\* an SSN-shaped value, 3 digits - 2 digits - 4 digits, starts at s[i]
SsnShapedAt(s, i) ==
    /\ i + 10 <= Len(s)
    /\ \A k \in {0, 1, 2, 4, 5, 7, 8, 9, 10} : s[i + k] \in Digit
    /\ s[i + 3] = "-"
    /\ s[i + 6] = "-"

\* C3: the deterministic pattern pass is idempotent: run over its own
\* output, it returns that output unchanged.
C3_PatternPassIdempotent == textPc = "twice" => textOut = textPrev

\* a second pass has run over text in which the first pass redacted a password
C3_Witness ==
    /\ textPc = "twice"
    /\ textPrev # textIn
    /\ Contains(textPrev, PasswordToken)

\* C4: the output of sanitizeTextForEgress holds none of the SSN-shaped
\* values of its input, whatever surrounds them and whichever pattern fired.
C4_NoSsnSurvives ==
    textPc \in {"once", "twice"} =>
        \A i \in 1..Len(textIn) :
            SsnShapedAt(textIn, i) => ~Contains(textOut, SubSeq(textIn, i, i + 10))

\* the phone pattern fired on digits that overlap the SSN, so that the SSN
\* pattern itself never matched
C4_Witness ==
    /\ textPc = "once"
    /\ \E i \in 1..Len(textIn) : SsnShapedAt(textIn, i)
    /\ Contains(textOut, PhoneToken)
    /\ ~Contains(textOut, SsnToken)

----------------------------------------------------------------------------
(* Properties of the object sanitizer                                      *)

\* out is in built like: the same type at every node, the same keys in
\* every mapping, the same length of every sequence, every string leaf
\* sanitized, every other leaf as it was
RECURSIVE ShapeKept(_, _)
ShapeKept(in, out) ==
    /\ out.t = in.t
    /\ CASE in.t = "string" -> out.v = sanitizeTextForEgress(in.v)
         [] in.t = "array" ->
               /\ Len(out.v) = Len(in.v)
               /\ \A i \in 1..Len(in.v) : ShapeKept(in.v[i], out.v[i])
         [] in.t = "object" ->
               /\ DOMAIN out.v = DOMAIN in.v
               /\ \A key \in DOMAIN in.v : ShapeKept(in.v[key], out.v[key])
         [] OTHER -> out = in

RECURSIVE HasStringLeaf(_), HasOtherLeaf(_)
HasStringLeaf(val) ==
    CASE val.t = "string" -> Len(val.v) > 0
      [] val.t = "array" -> \E i \in 1..Len(val.v) : HasStringLeaf(val.v[i])
      [] val.t = "object" -> \E key \in DOMAIN val.v : HasStringLeaf(val.v[key])
      [] OTHER -> FALSE

HasOtherLeaf(val) ==
    CASE val.t = "string" -> FALSE
      [] val.t = "array" -> \E i \in 1..Len(val.v) : HasOtherLeaf(val.v[i])
      [] val.t = "object" -> \E key \in DOMAIN val.v : HasOtherLeaf(val.v[key])
      [] OTHER -> TRUE

\* C5: the result of sanitizeObjectForEgress has the keys, the sequence
\* lengths and the nesting of its input; every string leaf is
\* sanitizeTextForEgress of the original leaf, and every number, boolean,
\* null and undefined leaf is returned unchanged.
C5_ShapePreserved == objPc = "done" => ShapeKept(objIn, objOut)

\* a sequence inside a mapping, holding a string that was redacted next to
\* a leaf that is no string
C5_Witness ==
    /\ objPc = "done"
    /\ objIn.t = "object"
    /\ \E key \in DOMAIN objIn.v :
          /\ objIn.v[key].t = "array"
          /\ Len(objIn.v[key].v) = 2
          /\ HasStringLeaf(objIn.v[key])
          /\ HasOtherLeaf(objIn.v[key])
    /\ objOut # objIn
----------------------------------------------------------------------------
(* Properties of the walk over the heap                                    *)

\* cell 1 holds itself, directly or through another container
RECURSIVE ReachesIn(_, _, _)
ReachesIn(from, to, steps) ==
    /\ steps > 0
    /\ IF heap[from].t = "container"
       THEN \E i \in 1..Len(heap[from].kids) :
               LET kid == heap[from].kids[i]
               IN  kid = to \/ ReachesIn(kid, to, steps - 1)
       ELSE FALSE

SelfReferencing == ReachesIn(1, 1, MaxCells)

\* C6: sanitizeObjectForEgress stops descending at a fixed depth, so that on
\* every input, a self-referencing one included, the recursion ends before
\* the call stack of the engine is used up.
C6_DepthLimited == walkStatus # "RangeError"

\* on an input that holds no reference to itself the walk returns
C6_AcyclicReturns ==
    (walkStatus = "RangeError") => SelfReferencing

----------------------------------------------------------------------------
(* Properties of the header filter                                         *)

\* the two names are the same up to the case of their letters
SameNameAnyCase(a, b) ==
    /\ Len(a) = Len(b)
    /\ \A i \in 1..Len(a) :
          \/ a[i] = b[i]
          \/ \E k \in DOMAIN LowerChars :
                {a[i], b[i]} = {LowerChars[k], UpperChars[k]}

HeaderValues(message) == {message.headers[name] : name \in DOMAIN message.headers}

SideCarriesNamesOnly(rawSide, outSide) ==
    /\ DOMAIN outSide = {"headerNames", "bodyKind", "bodyPreview"}
    /\ outSide.headerNames \subseteq DOMAIN rawSide.headers
    /\ outSide.headerNames \cap HeaderValues(rawSide) = {}
    /\ outSide.bodyKind \in {"json", "text", "html", "unknown", "empty"}
    /\ \A name \in outSide.headerNames :
          \A i \in DOMAIN SENSITIVE_HEADERS :
             ~SameNameAnyCase(name, SENSITIVE_HEADERS[i])

\* C7: a sanitized exchange carries header names only, never a header
\* value, and no name of the sensitive list is among headerNames whatever
\* the letter case of the name in the raw exchange.
C7_HeaderNamesOnly ==
    httpPc = "sanitized" =>
        /\ SideCarriesNamesOnly(httpRaw.request, httpOut.request)
        /\ SideCarriesNamesOnly(httpRaw.response, httpOut.response)

\* an upper-case AUTHORIZATION was filtered out next to a name that stayed
C7_Witness ==
    /\ httpPc = "sanitized"
    /\ <<"A","U","T","H","O","R","I","Z","A","T","I","O","N">> \in DOMAIN httpRaw.request.headers
    /\ <<"A","U","T","H","O","R","I","Z","A","T","I","O","N">> \notin httpOut.request.headerNames
    /\ <<"x","-","a","p","i","-","k","e","y","s">> \in httpOut.request.headerNames

----------------------------------------------------------------------------
(* Properties of the aspect composer                                       *)

NoShortCircuit == \A i \in 1..Len(aspects) : aspects[i].kind # "short_circuit"

\* pre(a1) .. pre(an), base, post(an) .. post(a1)
OnionOrder(n) ==
    [i \in 1..(2 * n + 1) |->
        IF i <= n THEN Event("pre", i)
        ELSE IF i = n + 1 THEN Event("base", 0)
        ELSE Event("post", 2 * n + 2 - i)]

\* the marks of the rewriting aspects among the first k, in list order
RECURSIVE MarksUpTo(_)
MarksUpTo(k) ==
    IF k = 0 THEN <<>>
    ELSE IF aspects[k].kind = "rewriting"
         THEN Append(MarksUpTo(k - 1), k)
         ELSE MarksUpTo(k - 1)

\* C8: for a list [a1..an] of which no aspect short-circuits, a call of
\* the composed function runs pre(a1) .. pre(an), the base function,
\* post(an) .. post(a1), and the base function receives the request as
\* rewritten by all aspects in list order.
C8_FirstAspectOutermost ==
    (aspPc = "called" /\ NoShortCircuit /\ aspCall.outcome = "returned") =>
        /\ aspCall.events = OnionOrder(Len(aspects))
        /\ aspCall.baseReq = aspReq \o MarksUpTo(Len(aspects))

\* three aspects, two of them rewriting, around a base function that returned
C8_Witness ==
    /\ aspPc = "called"
    /\ NoShortCircuit
    /\ aspCall.outcome = "returned"
    /\ Len(aspects) = 3
    /\ aspCall.baseReq = aspReq \o <<1, 3>>

----------------------------------------------------------------------------
(* Properties of the tool calls                                            *)

\* C1: no tool call is transmitted with arguments that have not been
\* through the recursive egress sanitizer: whatever was sent is
\* sanitizeObjectForEgress of what the caller handed over.
C1_ArgumentsSanitized ==
    wire.via # "none" => wire.arguments = sanitizeObjectForEgress(wire.raw)

\* the calls that go through mcpCall are sanitized
C1_McpCallSanitized ==
    wire.via = "baseMcpCall" => wire.arguments = sanitizeObjectForEgress(wire.raw)

\* C10: a transport failure and a tool-reported error reach the caller as
\* two distinguishable kinds: no error raised for the one has the class
\* and the message of an error raised for the other.
C10_ErrorKindsDistinct ==
    \A a, b \in errorsSeen :
        a.kind # b.kind => <<a.name, a.message>> # <<b.name, b.message>>

----------------------------------------------------------------------------
(* Properties of the candidate wire names                                  *)

\* a well-formed envelope with the error field populated
ToolReportedError(answer) == answer \in {"http_error_envelope", "ok_error_envelope"}

\* the names are called in declared order, each at most once, and none
\* after a call whose response had no error field
CalledInDeclaredOrder ==
    /\ Len(fbCalls) <= Len(toolNames)
    /\ \A k \in 1..Len(fbCalls) :
          /\ fbCalls[k].toolName = toolNames[k]
          /\ k < Len(fbCalls) =>
                fbCalls[k].answer \in {"http_error_plain", "http_error_envelope"}

\* C9: the candidates are tried in declared order and the caller gets the
\* result of the first one that does not report a tool error, no later
\* candidate being called after it; when the first reports a tool error
\* and the second succeeds, the caller gets the result of the second.
C9_FirstCandidateWithoutToolError ==
    fbPc = "done" =>
        /\ CalledInDeclaredOrder
        /\ fbResult.how = "returned" =>
              /\ fbResult.from = Len(fbCalls)
              /\ ~ToolReportedError(fbCalls[fbResult.from].answer)
        /\ (Len(fbCalls) >= 1 /\ ToolReportedError(fbCalls[1].answer)) =>
              /\ Len(fbCalls) = 2
              /\ fbCalls[2].answer = "ok_result" =>
                    fbResult = [how |-> "returned", from |-> 2, value |-> "result"]

\* a failure of the transport: the fetch rejected, or the status was not
\* 2xx and the body was no envelope
TransportFailed(answer) == answer \in {"network_error", "http_error_plain"}

\* no name is called twice in one invocation
NoSecondAttempt ==
    \A j, k \in 1..Len(fbCalls) :
        fbCalls[j].toolName = fbCalls[k].toolName => j = k

\* a rejected fetch leaves the function at once
NetworkErrorRaised ==
    \A k \in 1..Len(fbCalls) :
        fbCalls[k].answer = "network_error" =>
            /\ k = Len(fbCalls)
            /\ fbPc = "done"
            /\ fbResult = [how |-> "threw", from |-> k, value |-> "fetch failed"]

\* C26: a transport failure surfaces once and immediately: in one
\* invocation no candidate is called a second time, and a call whose
\* transport failed (network error, or non-2xx without an envelope) is the
\* last call of the invocation, which then raises to the caller; no later
\* candidate is called after it.
C26_TransportFailureSurfacesOnce ==
    /\ NoSecondAttempt
    /\ \A k \in 1..Len(fbCalls) :
          TransportFailed(fbCalls[k].answer) =>
              /\ k = Len(fbCalls)
              /\ fbPc = "done" => fbResult.how = "threw"

----------------------------------------------------------------------------
(* Properties of the messages to the completion service                    *)

MessagesSanitized(sent) ==
    /\ Len(sent.messages) = Len(sent.built)
    /\ \A i \in 1..Len(sent.messages) :
          sent.messages[i].content = sanitizeTextForEgress(sent.built[i].content)

\* C2: every message string sent to the completion service has passed
\* through sanitizeTextForEgress, on the groqChat path and on the
\* conversational path of the /api/chat handler.
C2_MessagesSanitized == chatPc = "sent" => MessagesSanitized(llmSent)

\* on the groqChat path they have
C2_GroqChatSanitized ==
    (chatPc = "sent" /\ llmSent.via = "baseGroqChat") => MessagesSanitized(llmSent)

----------------------------------------------------------------------------
(* Properties of the spec extractor                                        *)

\* the numbers that follow the prefix RFC somewhere in the text
MentionedNumbers(text) ==
    LET matches == matchAll(RfcPattern, text, 1)
    IN  {RfcNumber(text, matches[k]) : k \in DOMAIN matches}

\* the prefix RFC is followed by the same number at two places
NumberRepeated(text) ==
    LET matches == matchAll(RfcPattern, text, 1)
    IN  \E i, j \in DOMAIN matches :
           i # j /\ RfcNumber(text, matches[i]) = RfcNumber(text, matches[j])

EntitiesWithId(specs, id) == {k \in DOMAIN specs : specs[k].id = id}

CategoryHits(category, text) ==
    \/ Test(category.pattern, text)
    \/ \E j \in DOMAIN category.keywords :
          includes(LowerCaseStr(text), category.keywords[j])

\* C12: on every call of the extractor, whatever was extracted before, a
\* category of the catalog is emitted if and only if its pattern matches
\* the text or one of its keywords is contained in the lower-cased text.
C12_EmittedIffHit ==
    exPc = "extracted" =>
        \A k \in DOMAIN CatalogOf(exCatalog) :
            LET id == CatalogOf(exCatalog)[k].id
            IN  (\E j \in DOMAIN exSpecs : exSpecs[j].type = "owasp" /\ exSpecs[j].id = id)
                <=> \E m \in DOMAIN CatalogOf(exCatalog) :
                       /\ CatalogOf(exCatalog)[m].id = id
                       /\ CategoryHits(CatalogOf(exCatalog)[m], exText)

----------------------------------------------------------------------------
(* Properties of the catalog cache                                         *)

\* C13: across any sequence of calls of fetchDynamicOwaspCategories, calls
\* that overlap and calls that follow a failed fetch included, the research
\* tool is asked for the category list at most once within one cache window.
C13_AskedOncePerWindow ==
    \A i, j \in DOMAIN catAsked :
        i < j => catAsked[j] - catAsked[i] >= CacheTtlTicks

\* every fetch that returns with the source fallback returns the default
\* catalog
FallbackReturnsDefault ==
    \A c \in DOMAIN catCalls :
        catCalls[c].source = "fallback" => catCalls[c].categories = "default"

\* C14: when the research call, the parse or the structuring completion of
\* a fetch fails, the fetch returns the default catalog with the source
\* fallback, and the catalog used for matching from then on is the default
\* catalog too, also when an expired cached catalog exists.
C14_FallbackCatalogInEffect ==
    /\ FallbackReturnsDefault
    /\ (catLastSource = "fallback" /\ catGatewayUrl /\ ~isCacheValid) =>
           getCurrentOwaspCategories = "default"

\* the age of the cached catalog is below the TTL that was configured last
BelowConfiguredTtl == cachedData.set /\ catNow - cachedData.fetchedAt < customTtl

\* a call that starts is served from the cache exactly when the age of the
\* cached catalog is below the configured TTL
ServedWhileBelowConfiguredTtl ==
    \A c \in FetchCalls :
        (catCalls[c].pc = "idle" /\ catCalls'[c].pc # "idle") =>
            ((catCalls'[c].source = "cache") <=> BelowConfiguredTtl)

\* C30: the catalog cache has a configurable TTL: after
\* configureOwaspCacheTtl(t) a cached catalog is treated as valid exactly
\* while its age is below t, so a fetch within t is served from the cache
\* and a fetch after t starts a new fetch.
C30_ConfiguredTtlInEffect ==
    /\ [](isCacheValid <=> BelowConfiguredTtl)
    /\ [][ServedWhileBelowConfiguredTtl]_vars

----------------------------------------------------------------------------
(* Properties of the graph store adapter                                   *)

\* C15: no query handed to the gateway, a node upsert, an edge upsert, a
\* read of nodes by ids or a read of incident edges, holds an interpolated
\* id that fails [A-Za-z0-9_-]+ or a relationship type that fails [A-Z_]+:
\* the source id of an edge and the ids of a read as well as the target id.
C15_InterpolatedIdsValid ==
    \A q \in DOMAIN gQueries :
        /\ \A i \in DOMAIN gQueries[q].ids : isValidSpecId(gQueries[q].ids[i])
        /\ gQueries[q].op = "upsertEdge" => isValidRelType(gQueries[q].relType)

\* the node upserts, the target ids and the relationship types are checked
C15_UpsertedIdsValid ==
    \A q \in DOMAIN gQueries :
        /\ gQueries[q].op = "upsertNode" => isValidSpecId(gQueries[q].ids[1])
        /\ gQueries[q].op = "upsertEdge" =>
              isValidSpecId(gQueries[q].ids[2]) /\ isValidRelType(gQueries[q].relType)

NodesWithId(id) == {n \in gStore.nodes : n.id = id}

\* C16: in a batch upsert that mixes entities with valid and invalid ids,
\* an invalid entity causes no write to the store and does not stop the
\* batch: every entity with a valid id, before or after it, is upserted.
C16_InvalidEntitySkipped ==
    /\ \A n \in gStore.nodes : isValidSpecId(n.id)
    /\ \A e \in gStore.edges : isValidSpecId(e.source[2]) /\ isValidSpecId(e.target[2])
    /\ gStatus = "upserted" =>
          \A k \in DOMAIN gBatch :
              isValidSpecId(gBatch[k].id) =>
                  \E n \in gStore.nodes :
                      n.label = NodeLabel(gBatch[k].type) /\ n.id = gBatch[k].id

\* a batch was upserted whose first entity has an invalid id and whose
\* second has a valid one
C16_Witness ==
    /\ gStatus = "upserted"
    /\ Len(gBatch) = 2
    /\ ~isValidSpecId(gBatch[1].id)
    /\ isValidSpecId(gBatch[2].id)
    /\ NodesWithId(gBatch[2].id) # {}

\* C17: node upsert is idempotent by id: after any sequence of upserts the
\* store holds exactly one node per upserted id, with the properties of the
\* latest upsert of that id; the same id with other properties or another
\* kind never makes a second node.
C17_OneNodePerId ==
    \A e \in gLatest :
        /\ Cardinality(NodesWithId(e.id)) = 1
        /\ \A n \in NodesWithId(e.id) : n.title = e.title

\* of one kind, an id has one node, with the title upserted last
C17_OneNodePerKindAndId ==
    \A e \in gLatest :
        /\ Cardinality({n \in NodesWithId(e.id) : n.label = NodeLabel(e.type)}) = 1
        /\ \A n \in NodesWithId(e.id) : n.label = NodeLabel(e.type) => n.title = e.title

\* C18: whenever a report is returned, every id it cites, on the path of a
\* parsed report and on the fall-back path, is the id of a node that is in
\* the graph store at that moment.
C18_CitedIdsAreNodes ==
    gStatus = "reported" => \A id \in gReport.cited : NodesWithId(id) # {}


----------------------------------------------------------------------------
(* Properties of the run orchestrator                                      *)

RunOrder ==
    <<"CreateSession", "StartFixture", "Probe", "Sanitize", "DiscoverSpecs",
      "FetchGraphContext", "Analyze">>

RunStarted == runPc \notin {"off", "idle", "Complete", "Failed"}

RunEnded == runPc \in {"Complete", "Failed"}

\* the states started so far are the first ones of the order, each once
RunInOrder == 
    /\ Len(runLog) <= Len(RunOrder)
    /\ runLog = SubSeq(RunOrder, 1, Len(runLog))

\* a run ends in exactly one of: all seven states and a report, or an error
RunEndsOneWay ==
    /\ runPc = "Complete" =>
           /\ runLog = RunOrder
           /\ runReport # "none"
           /\ runError = NoError
    /\ runPc = "Failed" =>
           /\ runReport = "none"
           /\ runError # NoError
    /\ RunStarted => runReport = "none" /\ runError = NoError

\* C19: within one run the states are started strictly in the order
\* CreateSession, StartFixture, Probe, Sanitize, DiscoverSpecs,
\* FetchGraphContext, Analyze, one at a time, and every started run
\* eventually ends in exactly one of Complete (a report is returned) or
\* Failed (an error is raised).
C19_InOrderAndEnds ==
    /\ [](RunInOrder /\ RunEndsOneWay)
    /\ RunStarted ~> RunEnded

\* a second run has gone through all seven states and returned a report
C19_Witness ==
    /\ runPc = "Complete"
    /\ runLog = RunOrder
    /\ runReport = "parsed"
    /\ Len(runResults) = 1

\* C20: a failure of an outside call in a state of a run ends the run in
\* Failed with a typed error that names the state where it occurred, and
\* no report is returned.
C20_FailureTypedAndTagged ==
    (RunEnded /\ runFailures # {}) =>
        /\ runPc = "Failed"
        /\ runReport = "none"
        /\ runError.name \notin {"none", "Error"}
        /\ runError.state \in runFailures


\* C24: if the probe collects zero exchanges the orchestrator raises and
\* the run ends in Failed; no report is produced from an empty set of
\* exchanges.
C24_FailsOnZeroExchanges ==
    (/\ RunEnded
     /\ \E k \in DOMAIN runLog : runLog[k] = "Sanitize"
     /\ runExchanges = <<>>) =>
        runPc = "Failed" /\ runReport = "none"

----------------------------------------------------------------------------
(* Properties of the session manager                                       *)

\* no reset was called and no two calls overlapped
SequentialUse == ~sesHistory.reset /\ ~sesHistory.overlap

\* C21: across sequential runs and follow-up turns without an explicit
\* reset exactly one sandbox is created, and no sandbox is killed, also
\* when a run fails.
C21_OneSandboxReused ==
    SequentialUse => sbCreated <= 1 /\ sbKilled = {}

\* a call that finds no session starts a creation, whatever the other
\* caller is doing
EntersWithoutGuard ==
    \A c \in Callers :
        (/\ callers[c].pc = "idle"
         /\ callers'[c].op \in SessionUsers
         /\ activeSandbox = NoSandbox) => callers'[c].pc = "creating"

\* the handle references the sandbox of the caller that assigned last
LastAssignmentStays ==
    \A c \in Callers :
        (callers[c].pc = "configured" /\ callers'[c].pc = "got") =>
            activeSandbox' = callers[c].sb

\* C22: session creation has no mutual-exclusion guard. Two calls of
\* getOrCreateActiveSandbox that overlap while no session exists both pass
\* the check and each creates a sandbox; the handle keeps only the one
\* assigned last. Calls that do not overlap create one sandbox.
C22_NoCreationGuard ==
    /\ []((SequentialUse /\ ~sesHistory.run) => sbCreated <= 1)
    /\ [][EntersWithoutGuard /\ LastAssignmentStays]_vars

\* two sessions were created by overlapping first uses, with no run and no
\* reset; both are alive and the handle references one of them
C22_Witness ==
    /\ ~sesHistory.run /\ ~sesHistory.reset
    /\ \A c \in Callers : callers[c].pc = "idle"
    /\ sbCreated = 2
    /\ sbKilled = {}
    /\ activeSandbox \in 1..2

\* C27: the sample API is started at most once per sandbox, for any
\* interleaving of ensureSampleApiRunning calls.
C27_StartedAtMostOnce ==
    \A id \in 1..MaxSandboxes : apiStarts[id] <= 1

\* C28: where a session handle exists and the gateway is configured, the
\* configured credentials are those of the current handle; stated for
\* calls that do not overlap, so that the race of C22 plays no part.
C28_GatewayOfCurrentSession ==
    (/\ ~sesHistory.overlap
     /\ activeSandbox # NoSandbox
     /\ isMcpGatewayConfigured(mcpGatewayUrl)) => mcpGatewayUrl = activeSandbox


----------------------------------------------------------------------------
(* Properties of the analysis                                              *)

ReportFields == {"summary", "overallHealth", "endpoints", "rfcsCited", "owaspCited"}

\* the completion parses as a report of the expected shape
ParsesAsReport(completion) ==
    LET parsed == JSONparse(jsonStr(completion))
    IN  ~parsed.throws /\ parsed.type = "object" /\ ReportFields \subseteq DOMAIN parsed.value

\* C23: when the completion output cannot be parsed as the expected report
\* shape, the analysis returns a report whose summary is the raw
\* completion text, with an empty findings list and the attached graph
\* context.
C23_FallbackOnUnparsable ==
    (anPc = "returned" /\ ~ParsesAsReport(anCompletion)) =>
        /\ {"summary", "endpoints", "graphContext"} \subseteq DOMAIN anReport
        /\ anReport["summary"] = anCompletion.content
        /\ anReport["endpoints"] = <<>>
        /\ anReport["graphContext"] = anGraphContext

\* what holds of the code: the fallback is taken when JSON.parse throws
FallbackWhenParseThrows ==
    (anPc = "returned" /\ JSONparse(jsonStr(anCompletion)).throws) =>
        /\ anReport["summary"] = anCompletion.content
        /\ anReport["endpoints"] = <<>>
        /\ anReport["graphContext"] = anGraphContext


----------------------------------------------------------------------------
(* Properties of the chat handler                                          *)

\* C25: every failure message the chat handler shows to the user (audit
\* error, graph query error, general error) has been passed through the
\* sanitizer before it is placed in the response.
C25_FailureMessageSanitized ==
    \A r \in RequestIds :
        requests[r].response.status = 500 =>
            requests[r].response.message = errorMessageSanitized(requests[r].thrown)

\* a run that returns stores its graph context, whatever is stored
AuditOverwrites ==
    \A r \in RequestIds :
        (requests[r].kind = "audit" /\ requests[r].pc = "awaiting"
            /\ requests'[r].response.status = 200) =>
                lastGraphContext' = requests'[r].response.context

\* every other step leaves the cache as it is: a failed run, a graph
\* query, a chat turn, the arrival of a request
OthersLeaveCache ==
    (\A r \in RequestIds : requests'[r].response.status # 200
                            \/ requests[r].response.status = 200
                            \/ requests[r].kind # "audit")
        => lastGraphContext' = lastGraphContext

\* a chat turn reads the value stored when it arrives
ChatReadsStored ==
    \A r \in RequestIds :
        (requests[r].kind = "none" /\ requests'[r].kind = "chat") =>
            requests'[r].prompt = PromptContext(lastGraphContext)

====
